---- MODULE Spec2Model ----
(***************************************************************************)
(* The workflow board of WorkshopAI (preset.js, shapes.js) over the        *)
(* socket event channel (socket.js): the Graph Model, the two-click        *)
(* linking, node save/delete, the embedded node interface and its          *)
(* dynamic selects, and the engine as the peer that answers requests.      *)
(*                                                                         *)
(* JavaScript runs one handler at a time.  A response event runs every     *)
(* listener registered for its name (socket.once) and then, before any     *)
(* other event, the .then continuation of each promise it resolved, in     *)
(* registration order: one Deliver step.                                   *)
(***************************************************************************)
EXTENDS Integers, Sequences, FiniteSets, TLC

\* ------------------------------------------------------------------ bounds
MaxRequests == 3        \* requests a behaviour of the board may emit
MaxNodeRequests == 5    \* ... of the life of a node
MaxFormRequests == 4    \* ... of the embedded interface of a node
MaxNodes == 3           \* node objects there may be
MaxLoadLinks == 2       \* entries of data.links in a WORKFLOW response
MaxDeleteRequests == 3   \* requests of a behaviour of SpecDelete
MaxShapes == 2          \* windows and notes there may be
MaxAgents == 2          \* agents the engine holds
MaxAgentRequests == 4   \* requests of a behaviour of the agents list
MaxEditRequests == 5    \* requests of a behaviour of the agent editor
MaxCodeRequests == 4    \* requests of a behaviour of the code editor
MaxAddRequests == 6     \* requests of a behaviour of adding workflows
MaxVarRequests == 4     \* requests of a behaviour of the agent variables
MaxShapeRequests == 3   \* requests of a behaviour of SpecShapes
MaxWorkflows == 2       \* workflows the engine may hold
MaxListRequests == 5    \* requests of a behaviour of SpecList
MaxLoadRequests == 4    \* requests of a behaviour of SpecLoad
MaxLinkRequests == 2    \* requests of a behaviour of SpecLinks
MaxSwitchRequests == 3  \* requests of a behaviour of SpecSwitch
MaxMouseEvents == 5     \* mouse events of a behaviour of the canvas
MaxWheelTicks == 2      \* wheel events of a behaviour of the view

\* ------------------------------------------------------- names and values
\* response event names, socket.js WorkflowEvent
WORKFLOW == "workflow"
WORKFLOW_LIST == "workflow_list"
WORKFLOW_SAVE == "workflow_save"
NODE_CONTENT == "node"
NODE_SAVE == "node_save"
NODE_DELETE == "node_delete"
NODE_GET_DYNAMIC_OPTIONS == "node_get_dynamic_options"
LINK_CREATE == "link_create"
LINK_DELETE == "link_delete"

\* request event names, socket.js WorkflowEvent
WORKFLOW_REQUEST == "workflow_request"
WORKFLOW_LIST_REQUEST == "workflow_list_request"
WORKFLOW_SAVE_REQUEST == "workflow_save_request"
NODE_CONTENT_REQUEST == "node_request"
NODE_SAVE_REQUEST == "node_save_request"
NODE_DELETE_REQUEST == "node_delete_request"
NODE_GET_DYNAMIC_OPTIONS_REQUEST == "node_get_dynamic_options_request"
LINK_CREATE_REQUEST == "link_create_request"
LINK_DELETE_REQUEST == "link_delete_request"

\* AgentEvent of socket.js
AGENT == "agent"
AGENT_LIST == "agent_list"
AGENT_START == "agent_start"
AGENT_STOP == "agent_stop"
AGENT_IMPORT_VARS == "agent_import_vars"
AGENT_SAVE == "agent_save"
AGENT_REQUEST == "agent_request"
AGENT_LIST_REQUEST == "agent_list_request"
AGENT_START_REQUEST == "agent_start_request"
AGENT_STOP_REQUEST == "agent_stop_request"
AGENT_IMPORT_VARS_REQUEST == "agent_import_vars_request"
AGENT_SAVE_REQUEST == "agent_save_request"

\* the response event the engine answers a request event with
ResponseOf(request) ==
    CASE request = WORKFLOW_REQUEST -> WORKFLOW
      [] request = WORKFLOW_LIST_REQUEST -> WORKFLOW_LIST
      [] request = WORKFLOW_SAVE_REQUEST -> WORKFLOW_SAVE
      [] request = NODE_CONTENT_REQUEST -> NODE_CONTENT
      [] request = NODE_SAVE_REQUEST -> NODE_SAVE
      [] request = NODE_DELETE_REQUEST -> NODE_DELETE
      [] request = NODE_GET_DYNAMIC_OPTIONS_REQUEST -> NODE_GET_DYNAMIC_OPTIONS
      [] request = LINK_CREATE_REQUEST -> LINK_CREATE
      [] request = LINK_DELETE_REQUEST -> LINK_DELETE
      [] request = AGENT_REQUEST -> AGENT
      [] request = AGENT_LIST_REQUEST -> AGENT_LIST
      [] request = AGENT_START_REQUEST -> AGENT_START
      [] request = AGENT_STOP_REQUEST -> AGENT_STOP
      [] request = AGENT_IMPORT_VARS_REQUEST -> AGENT_IMPORT_VARS
      [] request = AGENT_SAVE_REQUEST -> AGENT_SAVE

Undefined == 0          \* JavaScript undefined / null, for ids
TheWorkflow == 1        \* id of the workflow the selector holds
Workflows == 1 .. MaxWorkflows  \* the ids of workflows

\* A node object: the joint cell id and, since graph.fromJSON builds new
\* objects for the ids of the layout, the load that built it (0: getNode).
NoNode == [ id |-> Undefined, gen |-> 0 ]

Cells == 1 .. MaxNodes  \* the cell ids of the node objects

\* the cell ids of the windows and notes, and of every element
Shapes == (MaxNodes + 1) .. (MaxNodes + MaxShapes)
Elements == Cells \cup Shapes

\* shapes.js: the size getNode gives a node and its originalSize, the
\* expandedSize of a new node, the sizes getWindow and getNote resize to
DEFAULT_NODE_WIDTH == 150
DEFAULT_NODE_HEIGHT == 70
originalSize == [ width |-> DEFAULT_NODE_WIDTH, height |-> DEFAULT_NODE_HEIGHT ]
defaultExpandedSize == [ width |-> 300, height |-> 250 ]
windowSize == [ width |-> 200, height |-> 150 ]
noteSize == [ width |-> 150, height |-> 100 ]
gridSize == 10          \* the gridSize option of the paper

\* the ids of the agents of the engine
Agents == 1 .. MaxAgents

\* the names of the agent variables, in the order Object.keys lists them
VarOrder == << "mood", "energy" >>

\* a JSON value of an agent variable: a string or a number, by its text
Str(text) == [ t |-> "string", v |-> text ]
Number(text) == [ t |-> "number", v |-> text ]

VarValues == { Str("sad"), Str("happy"), Number("5") }

\* no modal 'edit-agent-var' in the document
NoModal == << >>

\* the items of #board-context-menu, index.html
MenuItems ==
    { "create-link", "delete-link", "delete-node", "add-node", "add-window",
      "add-note", "rename-window", "delete-window", "delete-note",
      "clear-nodes" }

\* ---------------------------------------------------------------- state
VARIABLES
    workflowSelector,   \* $('#workflow-selector').val(), Undefined if none
    workflowOptions,    \* the ids of the options of #workflow-selector
    cells,              \* graph.getElements(): node cell ids, in graph order
    links,              \* graph.getLinks(): sequence of [source, target]
    graphGen,           \* how many times graph.fromJSON replaced the cells
    objGen,             \* per cell id: which object of that id is in the graph
    customId,           \* node.get('customId') of the node objects of an id
    nextCell,           \* node objects constructed by getNode so far
    selectedElement,    \* let selectedElement: a node object or NoNode
    selectedElements,   \* let selectedElements: the pending link endpoints
    contextMenu,        \* #board-context-menu: "hidden", or shown by the
                        \* right-click on a "node", "link", "window", "note"
                        \* or on the "blank" canvas
    visibleItems,       \* the items of the menu that are not hidden
    clickPosition,      \* let clickPosition
    shapes,             \* per shape id: "Window" or "Note" if that cell is
                        \* in the graph, else "none"
    position,           \* element.position() per element id
    size,               \* element.size() per element id
    expandedSize,       \* node.get('expandedSize') per cell id
    sizeAtOpen,         \* per cell id: the size the node had when its
                        \* interface was last toggled open
    fill,               \* node.attr('body/fill') per cell id
    pencilDisplay,      \* node.attr('pencilButton/display') per cell id
    currentEditingNode, \* let currentEditingNode
    codeSaveHandlers,   \* click handlers registered on #code-save
    codeDialogShown,    \* #code-editor-dialog is shown
    interfaceVisible,   \* node.get('interfaceVisible') per cell id
    form,               \* per cell id: the form its interfaceForm/html holds
    formData,           \* per cell id: what new FormData(form) held when the
                        \* forms were last read
    selects,            \* the select controls initialised so far
    listeners,          \* socket.once registrations, oldest first
    inflight,           \* requests the engine has not answered yet
    sent,               \* every request emitted, oldest first
    events,             \* every response event received, oldest first
    futures,            \* per future (= per request): event name, when it
                        \* was registered, the values it was resolved with
    reserved,           \* requests the gestures made so far may emit in all
    limit,              \* requests the behaviour may emit
    engineNextId,       \* the engine's next node id
    engineLayout,       \* the layout the engine holds, per workflow id
    engineWorkflows,    \* the ids of the workflows the engine holds, in
                        \* the order of its list
    engineRecord,       \* the node record the engine holds
    agentsSelector,     \* $('#agents-selector').val(), Undefined if none
    agentItems,         \* the li items of #agents-list-sortable, in order
    chosenAgentId,      \* let chosenAgentId
    agentNameField,     \* $('#agent-name').val()
    agentFields,        \* #agent-version and #agent-workflow (options and
                        \* value), $('#agent-description').val()
    agentVarItems,      \* the names #agent-variables-sortable lists
    agentVarModal,      \* the modal 'edit-agent-var', or NoModal
    engineAgents,       \* the agents the engine holds, per id
    cursor,             \* where the mouse is, in client coordinates
    held,               \* the mouse buttons that are down
    dragView,           \* the view paper.delegateDragEvents hands the
                        \* mouse events to: an element id, or Undefined
    pointer,            \* the let variables of the pan, drag and resize code
    paperTranslate,     \* paper.translate()
    paperScale,         \* paper.scale().sx
    mouseEvents,        \* mouse events so far
    wheelTicks          \* wheel events so far

vars == << workflowSelector, workflowOptions, cells, links, graphGen, objGen, customId,
           nextCell, selectedElement, selectedElements, contextMenu,
           currentEditingNode, codeSaveHandlers, codeDialogShown, interfaceVisible, form,
           formData, selects, listeners, inflight, sent, events, futures,
           reserved, limit, engineNextId, engineLayout, engineWorkflows,
           engineRecord, visibleItems, clickPosition, shapes, position, size, expandedSize,
           sizeAtOpen, cursor, held, dragView, pointer, paperTranslate,
           paperScale, mouseEvents, wheelTicks, agentsSelector, agentItems,
           chosenAgentId, agentNameField, agentFields, agentVarItems,
           agentVarModal, engineAgents, fill, pencilDisplay >>

\* the agents panel and the agents of the engine
agentVars == << agentsSelector, agentItems, chosenAgentId, agentNameField,
                agentFields, agentVarItems, agentVarModal, engineAgents >>

\* the mouse and the view, which no response and no menu item touches
mouseVars == << cursor, held, dragView, pointer, paperTranslate, paperScale,
                mouseEvents, wheelTicks >>

\* The client and engine state as one record, so that the continuations a
\* response runs can be applied one after the other within a step.
Cur ==
    [ workflowSelector |-> workflowSelector,
      workflowOptions |-> workflowOptions, cells |-> cells, links |-> links,
      graphGen |-> graphGen, objGen |-> objGen,
      customId |-> customId, nextCell |-> nextCell,
      selectedElement |-> selectedElement,
      selectedElements |-> selectedElements, contextMenu |-> contextMenu,
      currentEditingNode |-> currentEditingNode,
      codeSaveHandlers |-> codeSaveHandlers,
      codeDialogShown |-> codeDialogShown,
      interfaceVisible |-> interfaceVisible, form |-> form,
      formData |-> formData, selects |-> selects, listeners |-> listeners,
      inflight |-> inflight, sent |-> sent, events |-> events,
      futures |-> futures, reserved |-> reserved, limit |-> limit,
      engineNextId |-> engineNextId, engineLayout |-> engineLayout,
      engineWorkflows |-> engineWorkflows,
      engineRecord |-> engineRecord,
      visibleItems |-> visibleItems, clickPosition |-> clickPosition,
      shapes |-> shapes, position |-> position, size |-> size,
      expandedSize |-> expandedSize, sizeAtOpen |-> sizeAtOpen,
      agentsSelector |-> agentsSelector, agentItems |-> agentItems,
      chosenAgentId |-> chosenAgentId, agentNameField |-> agentNameField,
      agentFields |-> agentFields,
      agentVarItems |-> agentVarItems, agentVarModal |-> agentVarModal,
      engineAgents |-> engineAgents, fill |-> fill,
      pencilDisplay |-> pencilDisplay ]

BecomesGraph(s) ==
    /\ workflowSelector' = s.workflowSelector
    /\ workflowOptions' = s.workflowOptions
    /\ cells' = s.cells
    /\ links' = s.links
    /\ graphGen' = s.graphGen
    /\ objGen' = s.objGen
    /\ customId' = s.customId
    /\ nextCell' = s.nextCell
    /\ selectedElement' = s.selectedElement
    /\ selectedElements' = s.selectedElements
    /\ contextMenu' = s.contextMenu
    /\ currentEditingNode' = s.currentEditingNode
    /\ codeSaveHandlers' = s.codeSaveHandlers
    /\ codeDialogShown' = s.codeDialogShown
    /\ interfaceVisible' = s.interfaceVisible
    /\ form' = s.form
    /\ formData' = s.formData
    /\ selects' = s.selects
    /\ listeners' = s.listeners
    /\ inflight' = s.inflight
    /\ sent' = s.sent
    /\ events' = s.events
    /\ futures' = s.futures
    /\ reserved' = s.reserved
    /\ limit' = s.limit
    /\ engineNextId' = s.engineNextId
    /\ engineLayout' = s.engineLayout
    /\ engineWorkflows' = s.engineWorkflows
    /\ engineRecord' = s.engineRecord
    /\ visibleItems' = s.visibleItems
    /\ clickPosition' = s.clickPosition
    /\ shapes' = s.shapes
    /\ position' = s.position
    /\ size' = s.size
    /\ expandedSize' = s.expandedSize
    /\ sizeAtOpen' = s.sizeAtOpen
    /\ agentsSelector' = s.agentsSelector
    /\ agentItems' = s.agentItems
    /\ chosenAgentId' = s.chosenAgentId
    /\ agentNameField' = s.agentNameField
    /\ agentFields' = s.agentFields
    /\ agentVarItems' = s.agentVarItems
    /\ agentVarModal' = s.agentVarModal
    /\ engineAgents' = s.engineAgents
    /\ fill' = s.fill
    /\ pencilDisplay' = s.pencilDisplay

Becomes(s) == BecomesGraph(s) /\ UNCHANGED mouseVars

\* ------------------------------------------------------- sequence helpers
SeqToSet(q) == { q[i] : i \in 1 .. Len(q) }

Includes(q, x) == \E i \in 1 .. Len(q) : q[i] = x

\* JavaScript's { ...(cond && { key: value }) }
Opt(cond, rec) == IF cond THEN rec ELSE << >>

Has(obj, key) == key \in DOMAIN obj

\* response.message, which reads as undefined in an object without it
message(response) ==
    IF Has(response, "message") THEN response.message ELSE "undefined"

\* --------------------------------------------------------------- numbers
\* Coordinates, sizes and the scale are JavaScript numbers; the model keeps
\* them exact, as fractions n/d in lowest terms with d > 0.
RECURSIVE Gcd(_, _)
Gcd(a, b) == IF b = 0 THEN a ELSE Gcd(b, a % b)

Abs(a) == IF a < 0 THEN -a ELSE a

Rat(n, d) ==
    LET g == Gcd(Abs(n), Abs(d))
        sign == IF d < 0 THEN -1 ELSE 1
    IN [ n |-> sign * (n \div g), d |-> sign * (d \div g) ]

Num(n) == [ n |-> n, d |-> 1 ]

Add(a, b) == Rat(a.n * b.d + b.n * a.d, a.d * b.d)
Sub(a, b) == Rat(a.n * b.d - b.n * a.d, a.d * b.d)
Mul(a, b) == Rat(a.n * b.n, a.d * b.d)
Div(a, b) == Rat(a.n * b.d, a.d * b.n)
Leq(a, b) == a.n * b.d <= b.n * a.d

\* Math.round(a): the integer nearest to a, halves rounded up
Round(a) == Num((2 * a.n + a.d) \div (2 * a.d))

Point(x, y) == [ x |-> Num(x), y |-> Num(y) ]


\* ---------------------------------------------------------- event channel
\* socket.emit(request, payload) followed by waitForEvent(response): every
\* request of the board is emitted right before its future is created, so a
\* request and its future share one number.  `cont` is the .then callback
\* with the variables it closes over.
waitForEvent(s, eventName, cont) ==
    LET fid == Len(s.sent) IN
    [ s EXCEPT
        !.listeners = Append(@, [ fid |-> fid, kind |-> eventName,
                                  cont |-> cont ]),
        !.futures = Append(@, [ kind |-> eventName, regAt |-> Len(s.events),
                                values |-> << >> ]) ]

emit(s, request, payload) ==
    LET rid == Len(s.sent) + 1
        msg == [ rid |-> rid, event |-> request, payload |-> payload ]
    IN [ s EXCEPT !.sent = Append(@, msg), !.inflight = @ \cup { rid } ]

emitAndWait(s, request, payload, cont) ==
    waitForEvent(emit(s, request, payload), ResponseOf(request), cont)

\* ------------------------------------------------------------ graph model
\* the object of cell id c that is in the graph
Live(s, c) == [ id |-> c, gen |-> s.objGen[c] ]

\* node.graph === graph: the object is a cell of the graph
InGraph(s, node) ==
    /\ Includes(s.cells, node.id)
    /\ s.objGen[node.id] = node.gen

\* graph.getElements().find(el => el.get('customId') === nodeId)
findByCustomId(s, nodeId) ==
    LET hits == { i \in 1 .. Len(s.cells) : s.customId[s.cells[i]] = nodeId }
    IN IF hits = {} THEN NoNode
       ELSE Live(s, s.cells[CHOOSE i \in hits : \A j \in hits : i <= j])

\* graph.addCell(node)
addCell(s, node) ==
    [ s EXCEPT !.cells = Append(@, node.id), !.objGen[node.id] = node.gen ]

\* a remove that leaves the graph as it is
removeNothing(s, node) == s

\* a remove that also takes away the listeners of the fetches of the element
removeCancelling(s, node) ==
    IF InGraph(s, node)
    THEN [ s EXCEPT
             !.cells = SelectSeq(@, LAMBDA c : c # node.id),
             !.links = SelectSeq(@, LAMBDA l : l.source # node.id
                                               /\ l.target # node.id),
             !.listeners = SelectSeq(@, LAMBDA l :
                 ~ ( /\ l.cont.fn = "fetchNodeData"
                     /\ l.cont.nodeId = s.customId[node.id] )) ]
    ELSE s

\* cell.remove(): an object that is no cell of the graph any more has no
\* graph to leave; an element leaves with the links connected to it.
remove(s, node) ==
    IF InGraph(s, node)
    THEN [ s EXCEPT
             !.cells = SelectSeq(@, LAMBDA c : c # node.id),
             !.links = SelectSeq(@, LAMBDA l : l.source # node.id
                                               /\ l.target # node.id) ]
    ELSE s

\* a getLink that looks for a link from source to target only
getLinkOneWay(s, source, target) ==
    IF \E i \in 1 .. Len(s.links) :
           s.links[i].source = source.id /\ s.links[i].target = target.id
    THEN << >>
    ELSE << [ source |-> source.id, target |-> target.id ] >>

\* getLink(graph, source, target): << >> is its null, else the new link
getLink(s, source, target) ==
    LET existingLink ==
            \E i \in 1 .. Len(s.links) :
                \/ s.links[i].source = source.id /\ s.links[i].target = target.id
                \/ s.links[i].source = target.id /\ s.links[i].target = source.id
    IN IF existingLink THEN << >>
       ELSE << [ source |-> source.id, target |-> target.id ] >>

\* const newLink = getLink(...); if (newLink) newLink.addTo(graph)
addLinkIfNew(s, source, target) ==
    [ s EXCEPT !.links = @ \o getLink(s, source, target) ]

\* graph.toJSON(): the cells with the attributes this model follows
toJSON(s) ==
    [ cells |-> [ i \in 1 .. Len(s.cells) |->
                    [ id |-> s.cells[i],
                      customId |-> s.customId[s.cells[i]],
                      interfaceVisible |-> s.interfaceVisible[s.cells[i]],
                      form |-> s.form[s.cells[i]],
                      position |-> s.position[s.cells[i]],
                      size |-> s.size[s.cells[i]],
                      expandedSize |-> s.expandedSize[s.cells[i]],
                      fill |-> s.fill[s.cells[i]],
                      pencilDisplay |-> s.pencilDisplay[s.cells[i]] ] ],
      shapes |-> [ e \in { e \in Shapes : s.shapes[e] # "none" } |->
                     [ type |-> s.shapes[e], position |-> s.position[e],
                       size |-> s.size[e] ] ],
      links |-> s.links ]

\* graph.fromJSON(layout): new objects replace the cells of the graph; the
\* views are rendered anew, so the controls rendered before are detached.
fromJSON(s, layout) ==
    LET ids == { layout.cells[i].id : i \in 1 .. Len(layout.cells) }
        at(c) == CHOOSE i \in 1 .. Len(layout.cells) : layout.cells[i].id = c
        gen == s.graphGen + 1
    IN [ s EXCEPT
           !.graphGen = gen,
           !.cells = [ i \in 1 .. Len(layout.cells) |-> layout.cells[i].id ],
           !.links = layout.links,
           !.objGen = [ c \in DOMAIN @ |-> IF c \in ids THEN gen ELSE @[c] ],
           !.customId = [ c \in DOMAIN @ |->
                            IF c \in ids THEN layout.cells[at(c)].customId
                            ELSE @[c] ],
           !.interfaceVisible = [ c \in DOMAIN @ |->
                            IF c \in ids
                            THEN layout.cells[at(c)].interfaceVisible
                            ELSE @[c] ],
           !.form = [ c \in DOMAIN @ |->
                            IF c \in ids THEN layout.cells[at(c)].form
                            ELSE @[c] ],
           !.formData = [ c \in DOMAIN @ |-> IF c \in ids THEN << >> ELSE @[c] ],
           !.shapes = [ e \in Shapes |->
                            IF e \in DOMAIN layout.shapes
                            THEN layout.shapes[e].type ELSE "none" ],
           !.position = [ e \in Elements |->
                            IF e \in ids THEN layout.cells[at(e)].position
                            ELSE IF e \in DOMAIN layout.shapes
                            THEN layout.shapes[e].position ELSE @[e] ],
           !.size = [ e \in Elements |->
                            IF e \in ids THEN layout.cells[at(e)].size
                            ELSE IF e \in DOMAIN layout.shapes
                            THEN layout.shapes[e].size ELSE @[e] ],
           !.expandedSize = [ c \in DOMAIN @ |->
                            IF c \in ids THEN layout.cells[at(c)].expandedSize
                            ELSE @[c] ],
           !.fill = [ c \in DOMAIN @ |->
                            IF c \in ids THEN layout.cells[at(c)].fill
                            ELSE @[c] ],
           !.pencilDisplay = [ c \in DOMAIN @ |->
                            IF c \in ids THEN layout.cells[at(c)].pencilDisplay
                            ELSE @[c] ],
           !.selects = [ i \in 1 .. Len(@) |-> [ @[i] EXCEPT !.live = FALSE ] ] ]

\* ------------------------------------------------------ workflow management
\* { cells: [] }: a layout with no node, no window, no note and no link
EmptyLayout == [ cells |-> << >>, shapes |-> << >>, links |-> << >> ]

saveWorkflow(s) ==
    LET selectedWorkflow == s.workflowSelector IN
    IF selectedWorkflow # Undefined
    THEN emitAndWait(s, WORKFLOW_SAVE_REQUEST,
                     [ id |-> selectedWorkflow, graph |-> toJSON(s) ],
                     [ fn |-> "saveWorkflow" ])
    ELSE s

fetchWorkflowList(s) ==
    emitAndWait(s, WORKFLOW_LIST_REQUEST, << >>,
                [ fn |-> "fetchWorkflowList",
                  currentWorkflowId |-> s.workflowSelector ])

fetchWorkflowData(s, workflowId) ==
    emitAndWait(s, WORKFLOW_REQUEST, [ id |-> workflowId ],
                [ fn |-> "fetchWorkflowData" ])

saveEmptyWorkflow(s) ==
    emitAndWait(s, WORKFLOW_SAVE_REQUEST,
                [ name |-> "Default", graph |-> EmptyLayout ],
                [ fn |-> "saveEmptyWorkflow" ])

\* $('#workflow-selector').on('change', ...)
workflowSelectorChange(s) ==
    IF s.workflowSelector # Undefined
    THEN fetchWorkflowData(s, s.workflowSelector)
    ELSE s

\* updateWorkflowSelector(workflows): the options are those listed; the
\* selection stays if it is listed, else the select shows its first option
updateWorkflowSelector(s, workflows) ==
    LET ids == [ i \in 1 .. Len(workflows) |-> workflows[i].id ]
    IN [ s EXCEPT
           !.workflowOptions = ids,
           !.workflowSelector = IF Includes(ids, @) THEN @
                                ELSE IF ids = << >> THEN Undefined
                                ELSE ids[1] ]

\* $('#workflow-selector').val(id): the option of that value is selected;
\* with no such option none is, and val() is null
selectorVal(s, id) ==
    [ s EXCEPT !.workflowSelector =
                 IF Includes(s.workflowOptions, id) THEN id ELSE Undefined ]

\* a .then that selects the first workflow listed, whatever was selected
fetchWorkflowList_thenFirst(s, cont, data) ==
    IF Len(data.workflows) = 0
    THEN saveEmptyWorkflow(s)
    ELSE workflowSelectorChange(
             [ updateWorkflowSelector(s, data.workflows)
                 EXCEPT !.workflowSelector = data.workflows[1].id ])

\* updateWorkflowSelector(workflows), then .val(id).trigger('change')
fetchWorkflowList_then(s, cont, data) ==
    IF Len(data.workflows) = 0
    THEN saveEmptyWorkflow(s)
    ELSE LET ids == { data.workflows[i].id : i \in 1 .. Len(data.workflows) }
             chosen == IF cont.currentWorkflowId # Undefined
                          /\ cont.currentWorkflowId \in ids
                       THEN cont.currentWorkflowId
                       ELSE data.workflows[1].id
         IN workflowSelectorChange(
                [ updateWorkflowSelector(s, data.workflows)
                    EXCEPT !.workflowSelector = chosen ])

saveEmptyWorkflow_then(s, cont, response) ==
    IF message(response) = "success" THEN fetchWorkflowList(s) ELSE s

\* addWorkflow(): the callback of showNameDialog with the name typed
addWorkflow(s, workflowName) ==
    IF workflowName # ""
    THEN emitAndWait(s, WORKFLOW_SAVE_REQUEST,
                     [ name |-> workflowName, graph |-> EmptyLayout ],
                     [ fn |-> "addWorkflow" ])
    ELSE s

\* fetchWorkflowList(), then .val(response.id).trigger('change')
addWorkflow_then(s, cont, response) ==
    IF message(response) = "success"
    THEN workflowSelectorChange(selectorVal(fetchWorkflowList(s),
                                            response.id))
    ELSE s

RECURSIVE addLoadedLinksAll(_, _)
\* a load that adds every link of data.links whose nodes it finds
addLoadedLinksAll(s, loaded) ==
    IF loaded = << >> THEN s
    ELSE LET link == Head(loaded)
             sourceNode == findByCustomId(s, link.source)
             targetNode == findByCustomId(s, link.target)
         IN addLoadedLinksAll(
                IF sourceNode # NoNode /\ targetNode # NoNode
                THEN [ s EXCEPT !.links =
                         Append(@, [ source |-> sourceNode.id,
                                     target |-> targetNode.id ]) ]
                ELSE s,
                Tail(loaded))

RECURSIVE addLoadedLinks(_, _)
\* data.links.forEach(link => ...)
addLoadedLinks(s, loaded) ==
    IF loaded = << >> THEN s
    ELSE LET link == Head(loaded)
             sourceNode == findByCustomId(s, link.source)
             targetNode == findByCustomId(s, link.target)
         IN addLoadedLinks(
                IF sourceNode # NoNode /\ targetNode # NoNode
                THEN addLinkIfNew(s, sourceNode, targetNode)
                ELSE s,
                Tail(loaded))

\* a load that leaves the pencil of every node as the layout has it
showPencilAsLoaded(s) == s

\* graph.getElements().forEach: the pencil of a node shown or hidden by
\* its body/fill
showPencilByFill(s) ==
    [ s EXCEPT !.pencilDisplay =
        [ c \in DOMAIN @ |->
            IF Includes(s.cells, c)
            THEN IF s.fill[c] # "lightgray" /\ s.fill[c] # "lightgreen"
                 THEN "none" ELSE "block"
            ELSE @[c] ] ]

fetchWorkflowData_then(s, cont, data) ==
    addLoadedLinks(showPencilByFill(fromJSON(s, data.graph)), data.links)

\* ---------------------------------------------------------- node management
\* a saveNode that never sends the id of the node
saveNodeWithoutId(s, a) ==
    IF s.workflowSelector # Undefined
    THEN emitAndWait(s, NODE_SAVE_REQUEST,
                     [ workflow_id |-> s.workflowSelector ]
                     @@ Opt(Has(a, "code") /\ a.code # "", [ code |-> a.code ])
                     @@ Opt(Has(a, "static_input"),
                            [ static_input |-> a.static_input ]),
                     [ fn |-> "saveNode", node |-> a.node,
                       is_new_node |-> a.is_new_node ])
    ELSE s

\* saveNode({ node, is_new_node, code, static_input }): the callers of the
\* board never pass workflow_id; name, type and handler are carried along
\* unchanged and are left out.
saveNode(s, a) ==
    LET workflowId == s.workflowSelector IN
    IF workflowId # Undefined
    THEN LET nodeData ==
                 [ workflow_id |-> workflowId ]
                 @@ Opt(Has(a, "code") /\ a.code # "", [ code |-> a.code ])
                 @@ Opt(Has(a, "static_input"),
                        [ static_input |-> a.static_input ])
                 @@ Opt(~a.is_new_node, [ id |-> s.customId[a.node.id] ])
         IN emitAndWait(s, NODE_SAVE_REQUEST, nodeData,
                        [ fn |-> "saveNode", node |-> a.node,
                          is_new_node |-> a.is_new_node ])
    ELSE s

setCustomId(s, node, id) == [ s EXCEPT !.customId[node.id] = id ]

\* a .then that adds the new node whatever the response says
saveNode_thenAnyResponse(s, cont, response) ==
    IF cont.is_new_node
    THEN saveWorkflow(addCell(
             setCustomId(s, cont.node,
                         IF Has(response, "id") THEN response.id
                         ELSE Undefined),
             cont.node))
    ELSE s

\* the .then of the NODE_SAVE future of saveNode

saveNode_then(s, cont, response) ==
    IF message(response) = "success"
    THEN IF cont.is_new_node
         THEN saveWorkflow(addCell(setCustomId(s, cont.node, response.id),
                                   cont.node))
         ELSE s
    ELSE s

deleteNode(s, nodeId) ==
    LET workflowId == s.workflowSelector IN
    IF workflowId # Undefined
    THEN emitAndWait(s, NODE_DELETE_REQUEST,
                     [ workflow_id |-> workflowId, id |-> nodeId ],
                     [ fn |-> "deleteNode" ])
    ELSE s

fetchNodeData(s, nodeId, callback) ==
    LET workflowId == s.workflowSelector IN
    IF workflowId # Undefined
    THEN emitAndWait(s, NODE_CONTENT_REQUEST,
                     [ workflow_id |-> workflowId, id |-> nodeId ],
                     [ fn |-> "fetchNodeData", nodeId |-> nodeId,
                       callback |-> callback ])
    ELSE s

\* ------------------------------------------------------------ node interface
KeyOrder == << "a", "b", "c" >>     \* the field keys, in document order

NoForm == [ nodeId |-> Undefined, fields |-> << >> ]

LoadingOption == [ value |-> "", text |-> "Loading..." ]
ErrorOption == [ value |-> "", text |-> "Error loading" ]

\* new Option(text, value) for an option the engine lists as a plain value
OptionFor(option) == [ value |-> option, text |-> option ]

\* $select.val(): the value of the selected option, "null" without one
FirstValue(options) == IF options = << >> THEN "null" ELSE options[1].value

\* $select.val(v): selects the option whose value is v, none if there is none
SetVal(options, v) ==
    IF \E i \in 1 .. Len(options) : options[i].value = v THEN v ELSE "null"

\* generateNodeInterfaceHTMLString(theNode, nodeData): per key the field
\* definition, its default replaced by the persisted value if there is one
generateNodeInterfaceHTMLString(s, theNode, nodeData) ==
    LET interfaceData == IF Has(nodeData, "interface")
                         THEN nodeData.interface ELSE << >>
        staticInputData == IF Has(nodeData, "static_input")
                           THEN nodeData.static_input ELSE << >>
        definition(key) ==
            IF Has(staticInputData, key)
            THEN [ k \in (DOMAIN interfaceData[key]) \cup { "default" } |->
                     IF k = "default" THEN staticInputData[key]
                     ELSE interfaceData[key][k] ]
            ELSE interfaceData[key]
    IN [ nodeId |-> s.customId[theNode.id],
         fields |-> [ key \in DOMAIN interfaceData |-> definition(key) ] ]

\* generateFormField, type text: value="${definition.default || ''}"
textValue(definition) ==
    IF Has(definition, "default") /\ definition.default \notin { "null", "" }
    THEN definition.default
    ELSE ""

\* setInterfaceHTML(element, html)
setInterfaceHTML(s, element, formOrNone) ==
    [ s EXCEPT !.form[element.id] = formOrNone ]

\* elementView.render(): the view's DOM is built anew from the model, and
\* the controls it held before are detached from the document
render(s, node) ==
    [ s EXCEPT !.selects = [ i \in 1 .. Len(@) |->
                               IF @[i].node = node.id
                               THEN [ @[i] EXCEPT !.live = FALSE ]
                               ELSE @[i] ] ]

\* the <select> generateFormField writes for a field of type select;
\* request is the number of the options request made for it, 0 without one
selectElement(node, key, definition) ==
    LET dynamic == Has(definition, "options_source")
        options == IF dynamic THEN << LoadingOption >>
                   ELSE [ i \in 1 .. Len(definition.options) |->
                            OptionFor(definition.options[i]) ]
    IN [ node |-> node.id, key |-> key,
         source |-> IF dynamic THEN definition.options_source ELSE "",
         options |-> options,
         val |-> IF Has(definition, "default")
                    /\ SetVal(options, definition.default) # "null"
                 THEN definition.default
                 ELSE FirstValue(options),
         request |-> 0,
         live |-> TRUE ]

RECURSIVE initializeSelects(_, _, _, _, _, _)
\* initializeNodeInterfaceSelects_Embedded: $(foDiv).find('select').each(...)
initializeSelects(s, nodeElement, workflowId, nodeId, staticInputData, keys) ==
    IF keys = << >> THEN s
    ELSE
    LET fieldKey == Head(keys)
        fields == s.form[nodeElement.id].fields
        isSelect == Has(fields, fieldKey) /\ fields[fieldKey].type = "select"
        select == selectElement(nodeElement, fieldKey, fields[fieldKey])
        at == Len(s.selects) + 1
        added == [ s EXCEPT !.selects = Append(@, select) ]
        next ==
            IF ~isSelect THEN s
            ELSE IF select.source = ""
            THEN IF Has(staticInputData, fieldKey)
                 THEN [ added EXCEPT !.selects[at].val =
                          SetVal(select.options, staticInputData[fieldKey]) ]
                 ELSE added
            ELSE IF workflowId # Undefined /\ nodeId # Undefined
            THEN emitAndWait(
                     [ added EXCEPT !.selects[at].options = << LoadingOption >>,
                                    !.selects[at].val = "",
                                    !.selects[at].request = Len(s.sent) + 1 ],
                     NODE_GET_DYNAMIC_OPTIONS_REQUEST,
                     [ workflow_id |-> workflowId, node_id |-> nodeId,
                       options_source |-> select.source ],
                     [ fn |-> "dynamicOptions", select |-> at,
                       optionsSource |-> select.source, fieldKey |-> fieldKey,
                       staticInputData |-> staticInputData ])
            ELSE [ added EXCEPT !.selects[at].options = << ErrorOption >>,
                                !.selects[at].val = "" ]
    IN initializeSelects(next, nodeElement, workflowId, nodeId,
                         staticInputData, Tail(keys))

initializeNodeInterfaceSelects_Embedded(s, node, workflowId, nodeId, data) ==
    initializeSelects(s, node, workflowId, nodeId, data, KeyOrder)

\* a .then that takes the options of any success response
dynamicOptions_thenAnySource(s, cont, response) ==
    IF message(response) = "success"
    THEN LET options == [ i \in 1 .. Len(response.options) |->
                            OptionFor(response.options[i]) ]
         IN [ s EXCEPT
                !.selects[cont.select].options = options,
                !.selects[cont.select].val =
                    IF Has(cont.staticInputData, cont.fieldKey)
                    THEN SetVal(options, cont.staticInputData[cont.fieldKey])
                    ELSE FirstValue(options) ]
    ELSE [ s EXCEPT !.selects[cont.select].options = << ErrorOption >>,
                    !.selects[cont.select].val = "" ]

\* the .then of the dynamic-options future of one select
dynamicOptions_then(s, cont, response) ==
    IF message(response) = "success"
       /\ response.options_source = cont.optionsSource
    THEN LET options == [ i \in 1 .. Len(response.options) |->
                            OptionFor(response.options[i]) ]
         IN [ s EXCEPT
                !.selects[cont.select].options = options,
                !.selects[cont.select].val =
                    IF Has(cont.staticInputData, cont.fieldKey)
                    THEN SetVal(options, cont.staticInputData[cont.fieldKey])
                    ELSE FirstValue(options) ]
    ELSE [ s EXCEPT !.selects[cont.select].options = << ErrorOption >>,
                    !.selects[cont.select].val = "" ]

\* the height the layout gives the rendered form: its fields and its button
contentHeight(formOrNone) ==
    IF formOrNone = NoForm THEN 30
    ELSE 40 + 30 * Cardinality(DOMAIN formOrNone.fields)

\* foDiv.scrollHeight.  The div fills the foreignObject, whose height is
\* the expanded height less the header, and scrolls what does not fit; while
\* the foreignObject is not displayed the div has no box and no height.
scrollHeight(s, node) ==
    IF ~s.interfaceVisible[node.id] THEN 0
    ELSE IF contentHeight(s.form[node.id]) < s.expandedSize[node.id].height - 20
    THEN s.expandedSize[node.id].height - 20
    ELSE contentHeight(s.form[node.id])

\* node.resize(width, height)
resize(s, node, width, height) ==
    [ s EXCEPT !.size[node.id] = [ width |-> width, height |-> height ] ]

\* renderNodeInterface: the expanded size follows the rendered content
fitExpandedSize(s, node) ==
    LET newExpandedHeight == scrollHeight(s, node) + 20 + 20
        currentExpandedWidth == s.expandedSize[node.id].width
    IN resize([ s EXCEPT !.expandedSize[node.id] =
                           [ width |-> currentExpandedWidth,
                             height |-> newExpandedHeight ] ],
              node, currentExpandedWidth, newExpandedHeight)

renderNodeInterface(s, node, nodeData) ==
    LET nodeId == IF s.customId[node.id] # Undefined
                  THEN s.customId[node.id] ELSE node.id
    IN IF ~Has(nodeData, "error")
       THEN initializeNodeInterfaceSelects_Embedded(
                render(fitExpandedSize(setInterfaceHTML(s, node,
                        generateNodeInterfaceHTMLString(s, node, nodeData)),
                                       node),
                       node),
                node, s.workflowSelector, nodeId,
                IF Has(nodeData, "static_input")
                THEN nodeData.static_input ELSE << >>)
       ELSE render(setInterfaceHTML(s, node, NoForm), node)

\* a derivation that does not fall back to the persisted value
newStaticInputValueNoPrior(submitted, originalStaticInput, definition, key) ==
    IF definition.type = "checkbox"
    THEN IF Has(submitted, key) THEN "true" ELSE "false"
    ELSE IF Has(submitted, key)
    THEN submitted[key]
    ELSE IF Has(definition, "default") THEN definition.default ELSE "null"

\* a save that sends what the form submitted and nothing else
saveNodeInterface_SubmittedOnly(s, node, nodeData, interfaceData) ==
    IF s.form[node.id].nodeId # Undefined
       /\ s.form[node.id].nodeId = s.customId[node.id]
    THEN saveNode(s, [ node |-> node, is_new_node |-> FALSE,
                       static_input |-> s.formData[node.id] ])
    ELSE s

\* the value saveNodeInterface_Embedded derives for one key
newStaticInputValue(submitted, originalStaticInput, definition, key) ==
    IF definition.type = "checkbox"
    THEN IF Has(submitted, key) THEN "true" ELSE "false"
    ELSE IF Has(submitted, key)
    THEN submitted[key]
    ELSE IF Has(originalStaticInput, key)
    THEN originalStaticInput[key]
    ELSE IF Has(definition, "default") THEN definition.default ELSE "null"

saveNodeInterface_Embedded(s, node, nodeData, interfaceData) ==
    LET nodeId == s.customId[node.id]
        formFound == /\ s.form[node.id].nodeId # Undefined
                     /\ s.form[node.id].nodeId = nodeId
        originalStaticInput == IF Has(nodeData, "static_input")
                               THEN nodeData.static_input ELSE << >>
        newStaticInput ==
            [ key \in DOMAIN interfaceData |->
                newStaticInputValue(s.formData[node.id], originalStaticInput,
                                    interfaceData[key], key) ]
    IN IF formFound
       THEN saveNode(s, [ node |-> node, is_new_node |-> FALSE,
                          static_input |-> newStaticInput ])
       ELSE s

\* the callback window.handleSaveEmbeddedInterface hands to fetchNodeData
handleSaveEmbeddedInterface_callback(s, fetchedNode, data) ==
    IF ~Has(data, "error") /\ Has(data, "interface")
    THEN saveNodeInterface_Embedded(s, fetchedNode, data, data.interface)
    ELSE IF ~Has(data, "error") /\ ~Has(data, "interface")
    THEN saveNodeInterface_Embedded(s, fetchedNode, data, << >>)
    ELSE s

handleSaveEmbeddedInterface(s, nodeId) ==
    LET node == findByCustomId(s, nodeId)
    IN IF node # NoNode
       THEN fetchNodeData(s, nodeId, "handleSaveEmbeddedInterface")
       ELSE s

\* the callback openCodeEditor hands to fetchNodeData
openCodeEditor_callback(s, node, data) ==
    [ s EXCEPT !.codeDialogShown = TRUE ]

\* a continuation that keeps the node object it was started for and never
\* looks it up in the graph
fetchNodeData_thenHeld(s, cont, data) ==
    LET held_ == { c \in Cells : s.customId[c] = cont.nodeId }
        node == IF held_ = {} THEN NoNode
                ELSE Live(s, CHOOSE c \in held_ : \A d \in held_ : c <= d)
    IN IF node = NoNode THEN s
       ELSE CASE cont.callback = "renderNodeInterface" ->
                     renderNodeInterface(s, node, data)
              [] cont.callback = "handleSaveEmbeddedInterface" ->
                     handleSaveEmbeddedInterface_callback(s, node, data)
              [] cont.callback = "openCodeEditor" ->
                     openCodeEditor_callback(s, node, data)

fetchNodeData_then(s, cont, data) ==
    LET node == findByCustomId(s, cont.nodeId)
    IN IF node = NoNode THEN s
       ELSE CASE cont.callback = "renderNodeInterface" ->
                     renderNodeInterface(s, node, data)
              [] cont.callback = "handleSaveEmbeddedInterface" ->
                     handleSaveEmbeddedInterface_callback(s, node, data)
              [] cont.callback = "openCodeEditor" ->
                     openCodeEditor_callback(s, node, data)

\* toggleNodeInterface(node, paper)
toggleNodeInterface(s, node) ==
    IF s.interfaceVisible[node.id]
    THEN render([ resize(s, node, originalSize.width, originalSize.height)
                    EXCEPT !.interfaceVisible[node.id] = FALSE ], node)
    ELSE render([ resize(s, node, s.expandedSize[node.id].width,
                         s.expandedSize[node.id].height)
                    EXCEPT !.interfaceVisible[node.id] = TRUE ], node)

\* ------------------------------------------------------------------ engine
\* The engine is the peer behind the channel: it answers each request once,
\* in any order, with one of the payloads the protocol gives the response.
OptionsOf(source) == IF source = "A" THEN << "a1", "a2" >> ELSE << "b1" >>

\* the link lists a WORKFLOW response may carry: pairs of node ids assigned,
\* the two of a pair different as the two of a LINK_CREATE_REQUEST are
LoadLinks(s) ==
    LET ids == 1 .. (s.engineNextId - 1)
        pairs == { p \in { [ source |-> a, target |-> b ] :
                            a \in ids, b \in ids } : p.source # p.target }
    IN UNION { [ 1 .. n -> pairs ] : n \in 0 .. MaxLoadLinks }

Failure == [ message |-> "error", error |-> "failed" ]

\* the id the engine gives the next workflow it creates
newWorkflowId(s) ==
    CHOOSE w \in Workflows \ SeqToSet(s.engineWorkflows) :
        \A v \in Workflows \ SeqToSet(s.engineWorkflows) : w <= v

Responses(s, msg) ==
    CASE msg.event = NODE_SAVE_REQUEST ->
             { [ message |-> "success",
                 id |-> IF Has(msg.payload, "id") THEN msg.payload.id
                        ELSE s.engineNextId ],
               Failure }
      [] msg.event = NODE_DELETE_REQUEST ->
             { [ message |-> "success" ], Failure }
      [] msg.event = NODE_CONTENT_REQUEST ->
             { s.engineRecord, [ error |-> "failed" ] }
      [] msg.event = NODE_GET_DYNAMIC_OPTIONS_REQUEST ->
             { [ message |-> "success",
                 options_source |-> msg.payload.options_source,
                 options |-> OptionsOf(msg.payload.options_source) ],
               Failure }
      [] msg.event \in { LINK_CREATE_REQUEST, LINK_DELETE_REQUEST } ->
             { [ message |-> "success" ], Failure }
      [] msg.event = WORKFLOW_LIST_REQUEST ->
             { [ workflows |-> [ i \in 1 .. Len(s.engineWorkflows) |->
                                   [ id |-> s.engineWorkflows[i] ] ] ] }
      [] msg.event = WORKFLOW_REQUEST ->
             { [ graph |-> s.engineLayout[msg.payload.id], links |-> ls ] :
                 ls \in LoadLinks(s) }
      [] msg.event = WORKFLOW_SAVE_REQUEST ->
             IF Has(msg.payload, "id")
             THEN { [ message |-> "success", id |-> msg.payload.id ], Failure }
             ELSE IF Workflows \ SeqToSet(s.engineWorkflows) # { }
             THEN { [ message |-> "success", id |-> newWorkflowId(s) ],
                    Failure }
             ELSE { Failure }
      [] msg.event = AGENT_REQUEST ->
             { [ id |-> msg.payload.id ] @@ s.engineAgents[msg.payload.id] }
      [] msg.event = AGENT_LIST_REQUEST ->
             { [ agents |-> [ a \in Agents |->
                                [ id |-> a, name |-> s.engineAgents[a].name ] ] ] }
      [] msg.event \in { AGENT_START_REQUEST, AGENT_STOP_REQUEST,
                         AGENT_IMPORT_VARS_REQUEST, AGENT_SAVE_REQUEST } ->
             { [ message |-> "success" ], Failure }

\* an import that replaces the variables of the agent by the imported map
importVarsReplacing(own, variables) == variables

\* the import of the engine: every imported variable takes the imported
\* value, every other variable of the agent keeps its own
importVars(own, variables) ==
    [ k \in (DOMAIN own) \cup (DOMAIN variables) |->
        IF k \in DOMAIN variables THEN variables[k] ELSE own[k] ]

\* the same answers in the other shape of the protocol, {success, error?}
SuccessShaped(response) ==
    IF message(response) = "success"
    THEN [ k \in (DOMAIN response \ { "message" }) \cup { "success" } |->
             IF k = "success" THEN TRUE ELSE response[k] ]
    ELSE [ success |-> FALSE, error |-> "failed" ]

\* what answering changes in the engine: a created node takes the next id,
\* a saved static_input and a saved layout replace the ones held
engineApply(s, msg, payload) ==
    IF \/ message(payload) = "success"
       \/ Has(payload, "success") /\ payload.success
    THEN CASE msg.event = NODE_SAVE_REQUEST ->
                  [ s EXCEPT
                      !.engineNextId = IF Has(msg.payload, "id") THEN @
                                       ELSE @ + 1,
                      !.engineRecord =
                          IF Has(msg.payload, "static_input")
                          THEN [ k \in (DOMAIN @) \cup { "static_input" } |->
                                   IF k = "static_input"
                                   THEN msg.payload.static_input ELSE @[k] ]
                          ELSE @ ]
           [] msg.event = WORKFLOW_SAVE_REQUEST /\ Has(msg.payload, "id") ->
                  [ s EXCEPT !.engineLayout[msg.payload.id] =
                                 msg.payload.graph ]
           [] msg.event = WORKFLOW_SAVE_REQUEST ->
                  [ s EXCEPT !.engineWorkflows = Append(@, payload.id),
                             !.engineLayout[payload.id] = msg.payload.graph ]
           [] msg.event = AGENT_START_REQUEST ->
                  [ s EXCEPT !.engineAgents[msg.payload.id].is_started = TRUE ]
           [] msg.event = AGENT_STOP_REQUEST ->
                  [ s EXCEPT !.engineAgents[msg.payload.id].is_started = FALSE ]
           [] msg.event = AGENT_SAVE_REQUEST ->
                  [ s EXCEPT !.engineAgents[msg.payload.id] =
                        [ name |-> msg.payload.name,
                          version |-> msg.payload.version,
                          workflow_id |-> msg.payload.workflow_id,
                          description |-> msg.payload.description ] @@ @ ]
           [] msg.event = AGENT_IMPORT_VARS_REQUEST ->
                  [ s EXCEPT !.engineAgents[msg.payload.id].vars =
                                 importVars(@, msg.payload.variables) ]
           [] OTHER -> s
    ELSE s

\* ------------------------------------------------------- response delivery
\* a link is drawn whatever the response says
linkCreate_thenAnyResponse(s, cont, response) ==
    addLinkIfNew(s, cont.sourceNode, cont.targetNode)

\* a .then that takes either shape of a result for a success
linkCreate_thenEitherShape(s, cont, response) ==
    IF \/ message(response) = "success"
       \/ Has(response, "success") /\ response.success
    THEN addLinkIfNew(s, cont.sourceNode, cont.targetNode)
    ELSE s

\* the .then of the LINK_CREATE future of #board-create-link
linkCreate_then(s, cont, response) ==
    IF message(response) = "success"
    THEN addLinkIfNew(s, cont.sourceNode, cont.targetNode)
    ELSE s

\* cell.remove() of the object the menu was opened on: a link, a node, a
\* window or a note; an object that is no cell of the graph has none to leave
cellRemove(s, cell) ==
    IF Has(cell, "link")
    THEN IF cell.gen = s.graphGen
         THEN [ s EXCEPT !.links = SelectSeq(@, LAMBDA l : l # cell.link) ]
         ELSE s
    ELSE IF cell.id \in Cells
    THEN remove(s, cell)
    ELSE IF cell.gen = s.graphGen
    THEN [ s EXCEPT !.shapes[cell.id] = "none" ]
    ELSE s

\* the .then of the LINK_DELETE future of #board-delete-link: it reads the
\* variable selectedElement; null.remove() throws and nothing is removed
linkDelete_then(s, cont, response) ==
    IF message(response) = "success"
    THEN IF s.selectedElement = NoNode THEN s
         ELSE cellRemove(s, s.selectedElement)
    ELSE s

\* ------------------------------------------------------------ agents panel
\* Object.keys(vars)
keys(obj) == SelectSeq(VarOrder, LAMBDA k : k \in DOMAIN obj)

\* JSON.stringify(value, null, 2) of a string or a number
stringify(value) ==
    IF value.t = "string" THEN "\"" \o value.v \o "\"" ELSE value.v

fetchAgentList(s) ==
    emitAndWait(s, AGENT_LIST_REQUEST, << >>,
                [ fn |-> "fetchAgentList",
                  currentAgentId |-> s.agentsSelector.val ])

\* selector.empty(), an option per agent, the value kept if still listed
updateAgentSelector(s, agents) ==
    LET currentAgentId == s.agentsSelector.val
        ids == [ i \in 1 .. Len(agents) |-> agents[i].id ]
    IN [ s EXCEPT !.agentsSelector =
           [ options |-> ids,
             val |-> IF currentAgentId # Undefined
                        /\ Includes(ids, currentAgentId)
                     THEN currentAgentId
                     ELSE IF ids = << >> THEN Undefined ELSE ids[1] ] ]

fetchAgentList_then(s, cont, data) ==
    LET listed == updateAgentSelector(s, data.agents)
    IN IF cont.currentAgentId # Undefined
          /\ Includes(listed.agentsSelector.options, cont.currentAgentId)
       THEN [ listed EXCEPT !.agentsSelector.val = cont.currentAgentId ]
       ELSE [ listed EXCEPT !.agentsSelector.val = data.agents[1].id ]

\* addAgent(): the click handler of #agents-add-button
addAgent(s) ==
    LET selectedAgentId == s.agentsSelector.val
    IN IF selectedAgentId # Undefined
          /\ ~ \E i \in 1 .. Len(s.agentItems) :
                  s.agentItems[i].agentId = selectedAgentId
       THEN emitAndWait(s, AGENT_REQUEST, [ id |-> selectedAgentId ],
                        [ fn |-> "addAgent",
                          selectedAgentId |-> selectedAgentId ])
       ELSE s

\* the new item of AgentItem(id, name): both icons, one of them hidden
addAgent_then(s, cont, response) ==
    LET is_started == Has(response, "is_started") /\ response.is_started
    IN [ s EXCEPT !.agentItems =
           Append(@, [ agentId |-> cont.selectedAgentId,
                       off |-> ~ is_started, on |-> is_started ]) ]

\* click on .agent-button-off of the item
agentButtonOffClick(s, item) ==
    emitAndWait(s, AGENT_START_REQUEST,
                [ id |-> s.agentItems[item].agentId ],
                [ fn |-> "agentStart", agentItem |-> item ])

\* a .then that shows the started icon whatever the response says
agentStart_thenAnyResponse(s, cont, response) ==
    [ s EXCEPT !.agentItems[cont.agentItem].off = FALSE,
               !.agentItems[cont.agentItem].on = TRUE ]

agentStart_then(s, cont, response) ==
    IF message(response) = "success"
    THEN [ s EXCEPT !.agentItems[cont.agentItem].off = FALSE,
                    !.agentItems[cont.agentItem].on = TRUE ]
    ELSE s

\* click on .agent-button-on of the item
agentButtonOnClick(s, item) ==
    emitAndWait(s, AGENT_STOP_REQUEST,
                [ id |-> s.agentItems[item].agentId ],
                [ fn |-> "agentStop", agentItem |-> item ])

agentStop_then(s, cont, response) ==
    IF message(response) = "success"
    THEN [ s EXCEPT !.agentItems[cont.agentItem].on = FALSE,
                    !.agentItems[cont.agentItem].off = TRUE ]
    ELSE s

\* the selects emptied and without a value, the description blank
CleanFields ==
    [ version |-> Undefined, versionOptions |-> << >>,
      workflow |-> Undefined, workflowOptions |-> << >>,
      description |-> "" ]

cleanAgentEditor(s) ==
    [ s EXCEPT !.agentNameField = "", !.agentFields = CleanFields,
               !.agentVarItems = << >> ]

\* fetchWorkflowList(callback) of the agents panel
agentsFetchWorkflowList(s, callback) ==
    emitAndWait(s, WORKFLOW_LIST_REQUEST, << >>,
                [ fn |-> "agentsFetchWorkflowList", callback |-> callback ])

\* click on .agent-button-edit of the item
agentButtonEditClick(s, item) ==
    LET agentId == s.agentItems[item].agentId
    IN emitAndWait([ cleanAgentEditor(s) EXCEPT !.chosenAgentId = agentId ],
                   AGENT_REQUEST, [ id |-> agentId ], [ fn |-> "agentEdit" ])

agentEdit_then(s, cont, response) ==
    LET vars_names == IF Has(response, "vars") THEN keys(response.vars)
                      ELSE << >>
    IN agentsFetchWorkflowList(s, [ name |-> response.name,
                                    version |-> response.version,
                                    version_list |-> response.versions_list,
                                    workflow_id |-> response.workflow_id,
                                    description |-> response.description,
                                    vars_names |-> vars_names ])

\* populateAgentEditor({name, ..., vars_names}): the name set, an item
\* appended per variable name
\* select.val(value): the value of an option of the select, or none
optionVal(options, value) ==
    IF Includes(options, value) THEN value ELSE Undefined

populateAgentEditor(s, editor) ==
    LET versions == s.agentFields.versionOptions \o editor.version_list
        workflows ==
            s.agentFields.workflowOptions
            \o [ i \in 1 .. Len(editor.workflow_list) |->
                    editor.workflow_list[i].id ]
    IN [ s EXCEPT !.agentNameField = editor.name,
                  !.agentFields =
                      [ version |-> optionVal(versions, editor.version),
                        versionOptions |-> versions,
                        workflow |-> optionVal(workflows, editor.workflow_id),
                        workflowOptions |-> workflows,
                        description |-> editor.description ],
                  !.agentVarItems = @ \o editor.vars_names ]

agentsFetchWorkflowList_then(s, cont, data) ==
    populateAgentEditor(s, cont.callback
                           @@ [ workflow_list |-> data.workflows ])

\* saveAgent(): the click handler of #agents-save-button
saveAgent(s) ==
    IF s.chosenAgentId # Undefined
    THEN emitAndWait(s, AGENT_SAVE_REQUEST,
                     [ id |-> s.chosenAgentId,
                       name |-> s.agentNameField,
                       version |-> s.agentFields.version,
                       workflow_id |-> s.agentFields.workflow,
                       description |-> s.agentFields.description ],
                     [ fn |-> "saveAgent" ])
    ELSE s

\* the .then of saveAgent shows a toast
saveAgent_then(s, cont, response) == s

fetchAgentVariables(s) ==
    IF s.chosenAgentId # Undefined
    THEN emitAndWait(s, AGENT_REQUEST, [ id |-> s.chosenAgentId ],
                     [ fn |-> "fetchAgentVariables" ])
    ELSE s

fetchAgentVariables_then(s, cont, response) ==
    IF Has(response, "vars")
    THEN [ s EXCEPT !.agentVarItems = keys(response.vars) ]
    ELSE s

\* click on .agent-var-button-edit of the item of variableName
agentVarButtonEditClick(s, variableName) ==
    IF s.chosenAgentId # Undefined
    THEN emitAndWait(s, AGENT_REQUEST, [ id |-> s.chosenAgentId ],
                     [ fn |-> "agentVarEdit", variableName |-> variableName ])
    ELSE s

\* editVariable(variableName, variableValue): showModal('edit-agent-var')
editVariable(s, variableName, variableValue) ==
    [ s EXCEPT !.agentVarModal = << [ variableName |-> variableName,
                                      variableValue |-> variableValue ] >> ]

agentVarEdit_then(s, cont, response) ==
    IF Has(response, "vars") /\ Has(response.vars, cont.variableName)
    THEN editVariable(s, cont.variableName,
                      stringify(response.vars[cont.variableName]))
    ELSE s

\* a callback that sends every listed variable with the new value
editVariable_callbackAllListed(s, variableName, newValue) ==
    IF s.chosenAgentId # Undefined
    THEN emitAndWait(s, AGENT_IMPORT_VARS_REQUEST,
                     [ id |-> s.chosenAgentId,
                       variables |-> [ k \in SeqToSet(s.agentVarItems)
                                            \cup { variableName } |->
                                         Str(newValue) ] ],
                     [ fn |-> "importVars" ])
    ELSE s

\* the callback of the modal of editVariable, with the text of the textarea
editVariable_callback(s, variableName, newValue) ==
    IF s.chosenAgentId # Undefined
    THEN emitAndWait(s, AGENT_IMPORT_VARS_REQUEST,
                     [ id |-> s.chosenAgentId,
                       variables |-> [ k \in { variableName } |->
                                         Str(newValue) ] ],
                     [ fn |-> "importVars" ])
    ELSE s

\* importVariables(): reader.onload with the map parsed from the file
importVariables(s, variables) ==
    IF s.chosenAgentId # Undefined
    THEN emitAndWait(s, AGENT_IMPORT_VARS_REQUEST,
                     [ id |-> s.chosenAgentId, variables |-> variables ],
                     [ fn |-> "importVars" ])
    ELSE s

\* the .then of importVariables and of the callback of editVariable
importVars_then(s, cont, response) ==
    IF message(response) = "success" THEN fetchAgentVariables(s) ELSE s

\* the .then callback of a future, by the function that registered it
then(s, l, payload) ==
    CASE l.cont.fn = "saveNode" -> saveNode_then(s, l.cont, payload)
      [] l.cont.fn = "fetchNodeData" -> fetchNodeData_then(s, l.cont, payload)
      [] l.cont.fn = "dynamicOptions" -> dynamicOptions_then(s, l.cont, payload)
      [] l.cont.fn = "linkCreate" -> linkCreate_then(s, l.cont, payload)
      [] l.cont.fn = "linkDelete" -> linkDelete_then(s, l.cont, payload)
      [] l.cont.fn = "fetchWorkflowList" ->
             fetchWorkflowList_then(s, l.cont, payload)
      [] l.cont.fn = "fetchWorkflowData" ->
             fetchWorkflowData_then(s, l.cont, payload)
      [] l.cont.fn = "addWorkflow" -> addWorkflow_then(s, l.cont, payload)
      [] l.cont.fn = "saveEmptyWorkflow" ->
             saveEmptyWorkflow_then(s, l.cont, payload)
      [] l.cont.fn = "fetchAgentList" ->
             fetchAgentList_then(s, l.cont, payload)
      [] l.cont.fn = "addAgent" -> addAgent_then(s, l.cont, payload)
      [] l.cont.fn = "agentStart" -> agentStart_then(s, l.cont, payload)
      [] l.cont.fn = "agentStop" -> agentStop_then(s, l.cont, payload)
      [] l.cont.fn = "agentEdit" -> agentEdit_then(s, l.cont, payload)
      [] l.cont.fn = "saveAgent" -> saveAgent_then(s, l.cont, payload)
      [] l.cont.fn = "agentsFetchWorkflowList" ->
             agentsFetchWorkflowList_then(s, l.cont, payload)
      [] l.cont.fn = "fetchAgentVariables" ->
             fetchAgentVariables_then(s, l.cont, payload)
      [] l.cont.fn = "agentVarEdit" ->
             agentVarEdit_then(s, l.cont, payload)
      [] l.cont.fn = "importVars" -> importVars_then(s, l.cont, payload)
      [] l.cont.fn \in { "saveWorkflow", "deleteNode" } -> s

\* resolve(payload) of the promise waitForEvent returned
resolve(s, l, payload) ==
    [ s EXCEPT !.futures[l.fid].values = Append(@, payload) ]

\* a channel that hands an event to the newest listener of its name only
calledNewest(ls, eventName) ==
    LET named == SelectSeq(ls, LAMBDA l : l.kind = eventName)
    IN IF named = << >> THEN << >> ELSE << named[Len(named)] >>

\* a channel whose listeners stay registered (socket.on)
onceKeep(ls, eventName) == ls

\* a channel that hands an event to the oldest listener of its name only
calledOldest(ls, eventName) ==
    LET named == SelectSeq(ls, LAMBDA l : l.kind = eventName)
    IN IF named = << >> THEN << >> ELSE << named[1] >>

\* socket.once: the listeners an event of this name calls, oldest first ...
called(ls, eventName) == SelectSeq(ls, LAMBDA l : l.kind = eventName)

\* ... and the listeners that stay registered after it
once(ls, eventName) == SelectSeq(ls, LAMBDA l : l.kind # eventName)

RECURSIVE runListeners(_, _, _)
runListeners(s, ls, payload) ==
    IF ls = << >> THEN s
    ELSE runListeners(then(resolve(s, Head(ls), payload), Head(ls), payload),
                      Tail(ls), payload)

\* new FormData(formElement) reads what the controls of the rendered form
\* submit: any part of its fields, as the user left them
FormDatas(fields) == UNION { [ D -> { "typed" } ] : D \in SUBSET DOMAIN fields }

\* the forms are read only by the callback that saves an interface
FormReads(eventName) ==
    IF \E i \in 1 .. Len(listeners) :
           /\ listeners[i].kind = eventName
           /\ listeners[i].cont.fn = "fetchNodeData"
           /\ listeners[i].cont.callback = "handleSaveEmbeddedInterface"
    THEN { f \in [ Cells -> FormDatas([ k \in SeqToSet(KeyOrder) |-> 0 ]) ] :
             \A c \in Cells : DOMAIN f[c] \subseteq DOMAIN form[c].fields }
    ELSE { formData }

\* The engine answers request rid with payload; the client receives the
\* response event and runs what waits for it.
Deliver(rid, payload, submitted) ==
    LET msg == sent[rid]
        eventName == ResponseOf(msg.event)
        ev == [ kind |-> eventName, payload |-> payload, answers |-> rid ]
        s0 == [ engineApply(Cur, msg, payload) EXCEPT
                  !.inflight = @ \ { rid },
                  !.events = Append(@, ev),
                  !.listeners = once(@, eventName),
                  !.formData = submitted ]
    IN /\ rid \in inflight
       /\ Becomes(runListeners(s0, called(listeners, eventName), payload))

Respond ==
    \E rid \in inflight :
        \E payload \in Responses(Cur, sent[rid]) :
            \E submitted \in FormReads(ResponseOf(sent[rid].event)) :
                Deliver(rid, payload, submitted)

\* the engine answers a request whose response carries a result in the
\* {success, error?} shape
RespondSuccessShaped ==
    \E rid \in inflight :
        \E payload \in { r \in Responses(Cur, sent[rid]) :
                            Has(r, "message") } :
            Deliver(rid, SuccessShaped(payload), formData)

\* ---------------------------------------------------------------- gestures
\* -------------------------------------------------------------- the view
\* what the pointer handlers read and write
Canvas ==
    [ pointer |-> pointer, paperTranslate |-> paperTranslate,
      paperScale |-> paperScale, position |-> position, size |-> size,
      cells |-> cells, shapes |-> shapes ]

\* paper.clientToLocalPoint({ x, y }), the paper being at the client origin
clientToLocalPoint(k, p) ==
    [ x |-> Div(Sub(Num(p.x), k.paperTranslate.tx), k.paperScale),
      y |-> Div(Sub(Num(p.y), k.paperTranslate.ty), k.paperScale) ]

\* paper.snapToGrid(clientX, clientY): the local point joint hands to the
\* pointer handlers, each coordinate at the nearest multiple of gridSize
snapToGrid(k, p) ==
    LET local == clientToLocalPoint(k, p)
    IN [ x |-> Mul(Num(gridSize), Round(Div(local.x, Num(gridSize)))),
         y |-> Mul(Num(gridSize), Round(Div(local.y, Num(gridSize)))) ]

\* a gesture whose requests, with the ones its responses lead to, stay
\* within the requests a behaviour may emit
Reserve(s, n) == [ s EXCEPT !.reserved = @ + n ]

Affordable(n) == reserved + n <= limit

\* contextMenu.hide(), by the handler of a menu item or by the click
\* handler of the document that every click reaches
hide(s) == [ s EXCEPT !.contextMenu = "hidden" ]

\* #board-add-node, the dialog's callback with a name and a type given
\* the options of #add-node-type
NodeTypes == { "trigger", "resource", "action", "generator", "custom" }

\* the types given in the behaviours: one whose nodes keep the pencil and
\* one whose nodes lose it
AddedTypes == { "custom", "resource" }

\* the switch on the type in the callback of the dialog
fillColor(type) ==
    CASE type = "trigger" -> "lightgreen"
      [] type = "resource" -> "lightblue"
      [] type = "action" -> "lightcoral"
      [] type = "generator" -> "lightgoldenrodyellow"
      [] OTHER -> "lightgray"

AddNode(type) ==
    /\ contextMenu = "blank"
    /\ nextCell < MaxNodes
    /\ Affordable(2)
    /\ LET node == [ id |-> nextCell + 1, gen |-> graphGen ]
       IN Becomes(saveNode(
              hide(Reserve([ Cur EXCEPT
                  !.nextCell = @ + 1,
                  !.position[node.id] = clickPosition,
                  !.size[node.id] = originalSize,
                  !.fill[node.id] = fillColor(type),
                  !.pencilDisplay[node.id] =
                      IF type # "custom" /\ type # "trigger"
                      THEN "none" ELSE "block" ], 2)),
              [ node |-> node, is_new_node |-> TRUE ]))

\* showContextMenu(evt, x, y)
showContextMenu(s, category, at) ==
    [ s EXCEPT !.clickPosition = at, !.contextMenu = category ]

\* $(items).show()
showItems(s, items) == [ s EXCEPT !.visibleItems = @ \cup items ]

\* a hide that hides nothing
hideNothing(s, items) == s

\* $(items).hide()
hideItems(s, items) == [ s EXCEPT !.visibleItems = @ \ items ]

\* paper.on('cell:contextmenu'): cell is cellView.model, category the class
\* the instanceof tests find it in
cellContextmenu(s, cell, category, at) ==
    LET shown == showContextMenu([ s EXCEPT !.selectedElement = cell ],
                                 category, at)
    IN CASE category = "link" ->
              showItems(hideItems(shown,
                  { "create-link", "add-node", "add-window", "clear-nodes",
                    "delete-node", "rename-window", "add-note",
                    "delete-window", "delete-note" }),
                  { "delete-link" })
         [] category = "node" ->
              hideItems(showItems(shown, { "create-link", "delete-node" }),
                  { "delete-link", "add-node", "add-window", "clear-nodes",
                    "rename-window", "add-note", "delete-window",
                    "delete-note" })
         [] category = "window" ->
              hideItems(showItems(shown,
                  { "rename-window", "add-node", "add-note", "delete-window" }),
                  { "create-link", "delete-link", "delete-node", "add-window",
                    "clear-nodes", "delete-note" })
         [] category = "note" ->
              hideItems(showItems(shown, { "delete-note" }),
                  { "create-link", "delete-link", "delete-node",
                    "rename-window", "add-node", "add-window", "clear-nodes",
                    "delete-window", "add-note" })

\* paper.on('cell:contextmenu') on a node
ContextMenuNode(c) ==
    /\ Includes(cells, c)
    /\ Becomes(cellContextmenu(Cur, Live(Cur, c), "node",
                               snapToGrid(Canvas, cursor)))

\* paper.on('cell:contextmenu') on a link
ContextMenuLink(i) ==
    /\ i \in 1 .. Len(links)
    /\ Becomes(cellContextmenu(Cur, [ link |-> links[i], gen |-> graphGen ],
                               "link", snapToGrid(Canvas, cursor)))

\* paper.on('cell:contextmenu') on a window or a note
ContextMenuShape(e) ==
    /\ shapes[e] # "none"
    /\ Becomes(cellContextmenu(Cur, [ id |-> e, gen |-> graphGen ],
                               IF shapes[e] = "Window" THEN "window"
                               ELSE "note",
                               snapToGrid(Canvas, cursor)))

\* $(document).on('click'), for a click that no other handler takes
DocumentClick ==
    /\ contextMenu # "hidden"
    /\ Becomes(hide(Cur))

\* #board-add-window, the dialog's callback with a name given, and
\* #board-add-note: getWindow / getNote, position(clickPosition), addTo
addShape(s, e, type) ==
    [ s EXCEPT !.shapes[e] = type,
               !.position[e] = s.clickPosition,
               !.size[e] = IF type = "Window" THEN windowSize ELSE noteSize ]

AddWindowClick(e) ==
    /\ contextMenu # "hidden"
    /\ "add-window" \in visibleItems
    /\ shapes[e] = "none"
    /\ Becomes(hide(addShape(Cur, e, "Window")))

AddNoteClick(e) ==
    /\ contextMenu # "hidden"
    /\ "add-note" \in visibleItems
    /\ shapes[e] = "none"
    /\ Becomes(hide(addShape(Cur, e, "Note")))

\* #board-delete-window and #board-delete-note: selectedElement.remove()
\* if it is of the class, for the object the menu was opened on
removeShape(s, type) ==
    IF /\ s.selectedElement # NoNode
       /\ Has(s.selectedElement, "id")
       /\ s.selectedElement.id \in Shapes
       /\ s.shapes[s.selectedElement.id] = type
       /\ s.selectedElement.gen = s.graphGen
    THEN [ s EXCEPT !.shapes[s.selectedElement.id] = "none" ]
    ELSE s

DeleteWindowClick ==
    /\ contextMenu # "hidden"
    /\ "delete-window" \in visibleItems
    /\ Becomes(hide(removeShape(Cur, "Window")))

DeleteNoteClick ==
    /\ contextMenu # "hidden"
    /\ "delete-note" \in visibleItems
    /\ Becomes(hide(removeShape(Cur, "Note")))

\* $('.paper-container').on('contextmenu') on the blank canvas
ContextMenuBlank ==
    /\ selectedElement' = NoNode
    /\ contextMenu' = "blank"
    /\ clickPosition' = clientToLocalPoint(Canvas, cursor)
    /\ visibleItems' = (visibleItems \ { "create-link", "delete-link",
                           "delete-node", "rename-window", "delete-note",
                           "delete-window" })
                       \cup { "add-node", "add-window", "add-note",
                              "clear-nodes" }
    /\ UNCHANGED mouseVars
    /\ UNCHANGED << shapes, position, size, expandedSize, sizeAtOpen, fill,
                    pencilDisplay >>
    /\ UNCHANGED agentVars
    /\ UNCHANGED << workflowSelector, workflowOptions, cells, links, graphGen,
                    objGen, customId,
                    nextCell, selectedElements, currentEditingNode,
                    codeSaveHandlers, codeDialogShown, interfaceVisible, form,
                    formData, selects, listeners, inflight, sent, events,
                    futures, reserved, limit, engineNextId, engineLayout,
                    engineWorkflows, engineRecord >>

\* $('#board-create-link').on('click')
createLinkClick(s) ==
    IF s.selectedElement # NoNode
       /\ ~Includes(s.selectedElements, s.selectedElement)
    THEN LET pushed == Append(s.selectedElements, s.selectedElement)
         IN IF Len(pushed) = 2
            THEN LET sourceNode == pushed[1]
                     targetNode == pushed[2]
                     workflowId == s.workflowSelector
                     cleared == [ s EXCEPT !.selectedElements = << >> ]
                 IN IF workflowId # Undefined
                    THEN emitAndWait(cleared, LINK_CREATE_REQUEST,
                             [ workflow_id |-> workflowId,
                               source |-> s.customId[sourceNode.id],
                               target |-> s.customId[targetNode.id] ],
                             [ fn |-> "linkCreate", sourceNode |-> sourceNode,
                               targetNode |-> targetNode ])
                    ELSE cleared
            ELSE [ s EXCEPT !.selectedElements = pushed ]
    ELSE s

CreateLinkClick ==
    /\ contextMenu = "node"
    /\ Affordable(1)
    /\ Becomes(hide(createLinkClick(
           IF Len(selectedElements) = 1 THEN Reserve(Cur, 1) ELSE Cur)))

\* $('#board-delete-link').on('click')
deleteLinkClick(s) ==
    IF s.selectedElement # NoNode /\ Has(s.selectedElement, "link")
    THEN LET workflowId == s.workflowSelector
             link == s.selectedElement.link
         IN IF workflowId # Undefined
               /\ Includes(s.cells, link.source)
               /\ Includes(s.cells, link.target)
            THEN emitAndWait(s, LINK_DELETE_REQUEST,
                     [ workflow_id |-> workflowId,
                       source |-> s.customId[link.source],
                       target |-> s.customId[link.target] ],
                     [ fn |-> "linkDelete" ])
            ELSE s
    ELSE s

DeleteLinkClick ==
    /\ contextMenu = "link"
    /\ Affordable(1)
    /\ Becomes(hide(deleteLinkClick(Reserve(Cur, 1))))

\* $('#board-delete-node').on('click')
deleteNodeClick(s) ==
    IF s.selectedElement # NoNode
    THEN LET nodeId == s.customId[s.selectedElement.id]
         IN deleteNode(remove(s, s.selectedElement), nodeId)
    ELSE s

DeleteNodeClick ==
    /\ contextMenu = "node"
    /\ Affordable(1)
    /\ Becomes(hide(deleteNodeClick(Reserve(Cur, 1))))

\* paper.on('element:pencilButton:pointerdown'): openCodeEditor(elementView)
openCodeEditor(s, node) ==
    fetchNodeData([ s EXCEPT !.currentEditingNode = node,
                             !.codeSaveHandlers = @ + 1 ],
                  s.customId[node.id], "openCodeEditor")

PencilClick(c) ==
    /\ Includes(cells, c)
    /\ Affordable(1)
    /\ Becomes(openCodeEditor(Reserve(Cur, 1), Live(Cur, c)))

RECURSIVE codeSaveClick(_, _, _)
\* every click handler registered on #code-save, in turn
codeSaveClick(s, handlers, content) ==
    IF handlers = 0 THEN s
    ELSE codeSaveClick(
             [ (IF s.currentEditingNode # NoNode
                THEN saveNode(s, [ node |-> s.currentEditingNode,
                                   is_new_node |-> FALSE, code |-> content ])
                ELSE s)
               EXCEPT !.codeDialogShown = FALSE ],
             handlers - 1, content)

CodeSaveClick(content) ==
    /\ codeDialogShown
    /\ Affordable(codeSaveHandlers)
    /\ Becomes(hide(codeSaveClick(Reserve(Cur, codeSaveHandlers),
                                  codeSaveHandlers, content)))

\* $('#save-workflow-button').on('click', saveWorkflow)
SaveWorkflowClick ==
    /\ Affordable(1)
    /\ Becomes(hide(saveWorkflow(Reserve(Cur, 1))))

\* $('#add-workflow-button') and the name dialog confirmed: the save, and
\* on success the list and the load of a workflow
AddWorkflowClick(workflowName) ==
    /\ Affordable(3)
    /\ Becomes(hide(addWorkflow(Reserve(Cur, 3), workflowName)))

\* the user picks another option of #workflow-selector: its change handler
WorkflowSelectorChange(w) ==
    /\ Includes(workflowOptions, w)
    /\ w # workflowSelector
    /\ Affordable(1)
    /\ Becomes(workflowSelectorChange(
           [ Reserve(Cur, 1) EXCEPT !.workflowSelector = w ]))

\* the requests a fetchWorkflowList may lead to: the list and the workflow
\* listed, and before them the list and the save of the workflow created
\* when none is listed
fetchWorkflowListRequests == IF engineWorkflows = << >> THEN 4 ELSE 2

\* $('#preset-button').click with the preset menu visible
PresetButtonClick ==
    /\ Affordable(fetchWorkflowListRequests)
    /\ Becomes(hide(fetchWorkflowList(Reserve(Cur, fetchWorkflowListRequests))))

\* the dynamic selects a rendering of the engine's record asks options for
DynamicSelects(record) ==
    IF Has(record, "interface")
    THEN Cardinality({ k \in DOMAIN record.interface :
                         Has(record.interface[k], "options_source") })
    ELSE 0

\* paper.on('element:eyeButton:pointerdown')
eyeButtonClick(s, node) ==
    LET nodeId == s.customId[node.id]
        toggled == toggleNodeInterface(s, node)
    IN IF toggled.interfaceVisible[node.id]
       THEN IF nodeId # Undefined
            THEN fetchNodeData(toggled, nodeId, "renderNodeInterface")
            ELSE setInterfaceHTML(toggled, node, NoForm)
       ELSE toggled

EyeButtonClick(c) ==
    LET cost == IF interfaceVisible[c] THEN 0
                ELSE 1 + DynamicSelects(engineRecord)
    IN /\ Includes(cells, c)
       /\ Affordable(cost)
       /\ Becomes(eyeButtonClick(
              Reserve([ Cur EXCEPT !.sizeAtOpen[c] =
                            IF interfaceVisible[c] THEN @ ELSE size[c] ], cost),
              Live(Cur, c)))

\* the Save button of the embedded form: handleSaveEmbeddedInterface(nodeId)
InterfaceSaveClick(c) ==
    /\ Includes(cells, c)
    /\ interfaceVisible[c]
    /\ form[c] # NoForm
    /\ Affordable(2)
    /\ Becomes(hide(handleSaveEmbeddedInterface(Reserve(Cur, 2),
                                                form[c].nodeId)))

\* ------------------------------------------------- pan, zoom, drag, resize
Null == [ null |-> TRUE ]       \* null, or a let that was never assigned

IdlePointer ==
    [ isPanning |-> FALSE, startPoint |-> [ x |-> 0, y |-> 0 ],
      paperOrigin |-> [ x |-> 0, y |-> 0 ],
      isResizing |-> FALSE, isDragging |-> FALSE,
      resizeStartSize |-> Null, resizeStartPosition |-> Null,
      dragStartPosition |-> Null, resizeStartElementPosition |-> Null,
      nodesInsideWindow |-> { }, initialNodePositions |-> << >> ]

\* element instanceof joint.shapes.custom.Window / Note
isWindow(k, element) == element \in Shapes /\ k.shapes[element] = "Window"
isNote(k, element) == element \in Shapes /\ k.shapes[element] = "Note"

\* graph.getElements(): the nodes, the windows and the notes of the graph
getElements(k) ==
    SeqToSet(k.cells) \cup { e \in Shapes : k.shapes[e] # "none" }

\* bounding boxes that overlap
overlapsWindow(k, node, window) ==
    /\ Leq(k.position[node].x,
           Add(k.position[window].x, Num(k.size[window].width)))
    /\ Leq(k.position[window].x,
           Add(k.position[node].x, Num(k.size[node].width)))
    /\ Leq(k.position[node].y,
           Add(k.position[window].y, Num(k.size[window].height)))
    /\ Leq(k.position[window].y,
           Add(k.position[node].y, Num(k.size[node].height)))

\* isNodeInsideWindow(node, window): bounding box within bounding box
isNodeInsideWindow(k, node, window) ==
    /\ Leq(k.position[window].x, k.position[node].x)
    /\ Leq(k.position[window].y, k.position[node].y)
    /\ Leq(Add(k.position[node].x, Num(k.size[node].width)),
           Add(k.position[window].x, Num(k.size[window].width)))
    /\ Leq(Add(k.position[node].y, Num(k.size[node].height)),
           Add(k.position[window].y, Num(k.size[window].height)))

\* $('.paper-container').on('mousedown'); target is paper.findView(e.target)
containerMousedown(k, target, e) ==
    IF target = Undefined
    THEN [ k EXCEPT !.pointer.isPanning = TRUE,
                    !.pointer.startPoint = [ x |-> e.x, y |-> e.y ],
                    !.pointer.paperOrigin = k.paperTranslate ]
    ELSE k

\* $(document).on('mousemove')
documentMousemove(k, e) ==
    IF k.pointer.isPanning
    THEN LET dx == e.x - k.pointer.startPoint.x
             dy == e.y - k.pointer.startPoint.y
         IN [ k EXCEPT !.paperTranslate =
                [ tx |-> Add(k.pointer.paperOrigin.tx, Num(dx)),
                  ty |-> Add(k.pointer.paperOrigin.ty, Num(dy)) ] ]
    ELSE k

\* $(document).on('mouseup')
documentMouseup(k) == [ k EXCEPT !.pointer.isPanning = FALSE ]

\* the elements a window takes along when its drag starts
captured(k, element) ==
    { node \in getElements(k) :
        node # element /\ isNodeInsideWindow(k, node, element) }

\* a hot zone that is the whole right edge
inRightEdge(k, element, x, y) ==
    Leq(Sub(Add(k.position[element].x, Num(k.size[element].width)), Num(10)), x)

\* the bottom-right zone of a window or note that starts a resize
inResizeZone(k, element, x, y) ==
    /\ Leq(Sub(Add(k.position[element].x, Num(k.size[element].width)),
               Num(10)), x)
    /\ Leq(Sub(Add(k.position[element].y, Num(k.size[element].height)),
               Num(10)), y)

\* paper.on('element:pointerdown'); e is the event, (x, y) the local point
elementPointerdown(k, element, e, x, y) ==
    LET elementX == k.position[element].x
        elementY == k.position[element].y
        nodesInsideWindow == IF isWindow(k, element)
                             THEN captured(k, element)
                             ELSE k.pointer.nodesInsideWindow
    IN IF (isWindow(k, element) \/ isNote(k, element))
          /\ inResizeZone(k, element, x, y)
       THEN [ k EXCEPT
                !.pointer.isResizing = TRUE,
                !.pointer.resizeStartSize = k.size[element],
                !.pointer.resizeStartPosition = [ x |-> e.x, y |-> e.y ],
                !.pointer.resizeStartElementPosition =
                    [ x |-> elementX, y |-> elementY ] ]
       ELSE [ k EXCEPT
                !.pointer.isDragging = TRUE,
                !.pointer.dragStartPosition =
                    [ x |-> Sub(x, elementX), y |-> Sub(y, elementY) ],
                !.pointer.nodesInsideWindow = nodesInsideWindow,
                !.pointer.initialNodePositions =
                    IF isWindow(k, element)
                    THEN [ node \in nodesInsideWindow |->
                             [ offsetX |-> Sub(k.position[node].x, elementX),
                               offsetY |-> Sub(k.position[node].y, elementY) ] ]
                    ELSE @ ]

\* a resize without the lower limit of 50
resizeUnclamped(startSize, d) == startSize + d

\* Math.max(50, startSize + d)
resizeClamped(startSize, d) == IF startSize + d < 50 THEN 50 ELSE startSize + d

\* a drag of a window that leaves the captured elements where they are
moveWindowAlone(k, element, newX, newY) ==
    [ k EXCEPT !.position[element] = [ x |-> newX, y |-> newY ] ]

\* the window and the elements captured at drag start take their places
moveWindow(k, element, newX, newY) ==
    [ k EXCEPT !.position =
        [ n \in Elements |->
            IF n = element THEN [ x |-> newX, y |-> newY ]
            ELSE IF n \in DOMAIN k.pointer.initialNodePositions
            THEN [ x |-> Add(newX, k.pointer.initialNodePositions[n].offsetX),
                   y |-> Add(newY, k.pointer.initialNodePositions[n].offsetY) ]
            ELSE @[n] ] ]

\* paper.on('element:pointermove').  joint's own drag of the element runs
\* before this handler, which sets the position in every branch.
elementPointermove(k, element, e, x, y) ==
    IF k.pointer.isResizing /\ (isWindow(k, element) \/ isNote(k, element))
    THEN LET dx == e.x - k.pointer.resizeStartPosition.x
             dy == e.y - k.pointer.resizeStartPosition.y
             newWidth == resizeClamped(k.pointer.resizeStartSize.width, dx)
             newHeight == resizeClamped(k.pointer.resizeStartSize.height, dy)
         IN [ k EXCEPT
                !.size[element] = [ width |-> newWidth, height |-> newHeight ],
                !.position[element] = k.pointer.resizeStartElementPosition ]
    ELSE IF k.pointer.isDragging
    THEN LET newX == Sub(x, k.pointer.dragStartPosition.x)
             newY == Sub(y, k.pointer.dragStartPosition.y)
         IN IF isWindow(k, element)
            THEN moveWindow(k, element, newX, newY)
            ELSE [ k EXCEPT !.position[element] = [ x |-> newX, y |-> newY ] ]
    ELSE k

\* a pointer-up that keeps the captured elements
elementPointerupKeeping(k, element) ==
    [ k EXCEPT !.pointer.isResizing = FALSE, !.pointer.isDragging = FALSE,
               !.pointer.dragStartPosition = Null,
               !.pointer.resizeStartPosition = Null,
               !.pointer.resizeStartSize = Null,
               !.pointer.resizeStartElementPosition = Null ]

\* paper.on('element:pointerup')
elementPointerup(k, element) ==
    [ k EXCEPT !.pointer.isResizing = FALSE, !.pointer.isDragging = FALSE,
               !.pointer.dragStartPosition = Null,
               !.pointer.resizeStartPosition = Null,
               !.pointer.resizeStartSize = Null,
               !.pointer.resizeStartElementPosition = Null,
               !.pointer.nodesInsideWindow = { },
               !.pointer.initialNodePositions = << >> ]

\* a zoom that keeps the translate
zoomKeepingTranslate(translate, offset, oldScale, newScale) == translate

\* newTx = offsetX - ((offsetX - translate.tx) / oldScale) * newScale
zoomTranslate(translate, offset, oldScale, newScale) ==
    LET fx == Div(Sub(Num(offset.x), translate.tx), oldScale)
        fy == Div(Sub(Num(offset.y), translate.ty), oldScale)
    IN [ tx |-> Sub(Num(offset.x), Mul(fx, newScale)),
         ty |-> Sub(Num(offset.y), Mul(fy, newScale)) ]

\* $('.paper-container').on('wheel')
containerWheel(k, deltaY, offset) ==
    LET oldScale == k.paperScale
        newScale == IF deltaY > 0 THEN Mul(oldScale, Rat(9, 10))
                    ELSE Mul(oldScale, Rat(11, 10))
    IN [ k EXCEPT !.paperScale = newScale,
                  !.paperTranslate =
                      zoomTranslate(k.paperTranslate, offset, oldScale, newScale) ]

\* ------------------------------------------------------------ the mouse
\* the buttons of the mouse, and where the behaviours put the cursor
Buttons == { "left", "right" }

CursorPoints ==
    { [ x |-> 10, y |-> 10 ], [ x |-> 195, y |-> 145 ], [ x |-> 60, y |-> 60 ],
      [ x |-> 310, y |-> 60 ], [ x |-> 50, y |-> 250 ],
      [ x |-> 145, y |-> 295 ], [ x |-> 250, y |-> 170 ],
      [ x |-> 100, y |-> 100 ], [ x |-> 195, y |-> 100 ] }

\* the z of the shapes: windows -2, notes -1, nodes above them
layer(k, element) ==
    IF isWindow(k, element) THEN 0 ELSE IF isNote(k, element) THEN 1 ELSE 2

\* paper.findView(e.target) for an event at p: an element on top of the
\* ones that hold the point, Undefined on the blank canvas
findView(k, p) ==
    LET q == clientToLocalPoint(k, p)
        hits == { e \in getElements(k) :
                    /\ Leq(k.position[e].x, q.x)
                    /\ Leq(q.x, Add(k.position[e].x, Num(k.size[e].width)))
                    /\ Leq(k.position[e].y, q.y)
                    /\ Leq(q.y, Add(k.position[e].y, Num(k.size[e].height))) }
    IN IF hits = { } THEN { Undefined }
       ELSE { e \in hits : \A f \in hits : layer(k, f) <= layer(k, e) }

\* the variables of the board that the mouse leaves alone
boardVars ==
    << workflowSelector, workflowOptions, cells, links, graphGen, objGen,
       customId, nextCell,
       selectedElement, selectedElements, contextMenu, currentEditingNode,
       codeSaveHandlers, codeDialogShown, interfaceVisible, form, formData,
       selects, listeners, inflight, sent, events, futures, reserved, limit,
       engineNextId, engineLayout, engineWorkflows, engineRecord,
       visibleItems, clickPosition,
       shapes, expandedSize, sizeAtOpen, agentsSelector, agentItems,
       chosenAgentId, agentNameField, agentFields, agentVarItems,
       agentVarModal, engineAgents, fill, pencilDisplay >>

BecomesCanvas(k) ==
    /\ pointer' = k.pointer
    /\ paperTranslate' = k.paperTranslate
    /\ paperScale' = k.paperScale
    /\ position' = k.position
    /\ size' = k.size
    /\ UNCHANGED boardVars

\* a button goes down: the mousedown handler of the container, and for the
\* left button on an element joint's pointerdown, which makes its view the
\* one the following mouse events go to (the right button is left to the
\* context menu)
MouseDown(button, target) ==
    /\ mouseEvents < MaxMouseEvents
    /\ button \notin held
    /\ target \in findView(Canvas, cursor)
    /\ LET onElement == button = "left" /\ target # Undefined
           k == containerMousedown(Canvas, target, cursor)
           local == snapToGrid(k, cursor)
       IN /\ BecomesCanvas(IF onElement
                           THEN elementPointerdown(k, target, cursor,
                                                   local.x, local.y)
                           ELSE k)
          /\ dragView' = IF onElement THEN target ELSE dragView
    /\ held' = held \cup { button }
    /\ mouseEvents' = mouseEvents + 1
    /\ UNCHANGED << cursor, wheelTicks >>

\* the mouse moves to p: the mousemove handler of the document, then
\* joint's pointermove for the view that holds the drag
MouseMove(p) ==
    /\ mouseEvents < MaxMouseEvents
    /\ p # cursor
    /\ LET k == documentMousemove(Canvas, p)
           local == snapToGrid(k, p)
       IN BecomesCanvas(IF dragView # Undefined
                        THEN elementPointermove(k, dragView, p,
                                                local.x, local.y)
                        ELSE k)
    /\ cursor' = p
    /\ mouseEvents' = mouseEvents + 1
    /\ UNCHANGED << held, dragView, wheelTicks >>

\* a button goes up: the mouseup handler of the document, and joint's
\* pointerup for the view that holds the drag, which it lets go
MouseUp(button) ==
    /\ mouseEvents < MaxMouseEvents
    /\ button \in held
    /\ LET k == documentMouseup(Canvas)
       IN BecomesCanvas(IF dragView # Undefined
                        THEN elementPointerup(k, dragView) ELSE k)
    /\ dragView' = Undefined
    /\ held' = held \ { button }
    /\ mouseEvents' = mouseEvents + 1
    /\ UNCHANGED << cursor, wheelTicks >>

\* the wheel turns with the cursor where it is
Wheel(deltaY) ==
    /\ wheelTicks < MaxWheelTicks
    /\ BecomesCanvas(containerWheel(Canvas, deltaY, cursor))
    /\ wheelTicks' = wheelTicks + 1
    /\ UNCHANGED << cursor, held, dragView, mouseEvents >>

\* ------------------------------------------------------- agents gestures
\* $('#agents-button').click() with the menu visible
AgentsButtonClick ==
    /\ Affordable(1)
    /\ Becomes(fetchAgentList(Reserve(Cur, 1)))

\* the user picks another option of #agents-selector
SelectAgent(a) ==
    /\ Includes(agentsSelector.options, a)
    /\ a # agentsSelector.val
    /\ Becomes([ Cur EXCEPT !.agentsSelector.val = a ])

\* $('#agents-add-button').on('click', addAgent)
AgentsAddClick ==
    /\ agentsSelector.val # Undefined
    /\ Affordable(1)
    /\ Becomes(addAgent(Reserve(Cur, 1)))

\* a click on the icon of an item, which is there to click while shown
AgentButtonOffClick(item) ==
    /\ item \in 1 .. Len(agentItems)
    /\ agentItems[item].off
    /\ Affordable(1)
    /\ Becomes(agentButtonOffClick(Reserve(Cur, 1), item))

AgentButtonOnClick(item) ==
    /\ item \in 1 .. Len(agentItems)
    /\ agentItems[item].on
    /\ Affordable(1)
    /\ Becomes(agentButtonOnClick(Reserve(Cur, 1), item))

AgentButtonEditClick(item) ==
    /\ item \in 1 .. Len(agentItems)
    /\ agentVarModal = NoModal
    /\ Affordable(2)
    /\ Becomes(agentButtonEditClick(Reserve(Cur, 2), item))

\* $('#agents-save-button').on('click', saveAgent)
AgentsSaveClick ==
    /\ agentVarModal = NoModal
    /\ Affordable(1)
    /\ Becomes(saveAgent(Reserve(Cur, 1)))

\* a click on the pencil of a listed variable; an open modal covers the list
AgentVarButtonEditClick(variableName) ==
    /\ Includes(agentVarItems, variableName)
    /\ agentVarModal = NoModal
    /\ Affordable(1)
    /\ Becomes(agentVarButtonEditClick(Reserve(Cur, 1), variableName))

\* the texts the user may leave in #agent-var-value: a text the modal may
\* show, untouched, or one typed over it
EditTexts == { stringify(v) : v \in VarValues } \cup { "7", "" }

\* the button of the modal that runs the callback and hides the modal
EditVarConfirm(newValue) ==
    /\ agentVarModal # NoModal
    /\ newValue \in EditTexts
    /\ Affordable(2)
    /\ Becomes([ editVariable_callback(Reserve(Cur, 2),
                                       agentVarModal[1].variableName,
                                       newValue)
                   EXCEPT !.agentVarModal = NoModal ])

\* the close button of the modal
EditVarDismiss ==
    /\ agentVarModal # NoModal
    /\ Becomes([ Cur EXCEPT !.agentVarModal = NoModal ])

\* the maps the user may import from a file
ImportMaps ==
    { [ mood |-> Str("happy") ],
      [ energy |-> Number("7") ],
      [ mood |-> Str("happy"), energy |-> Number("7") ] }

\* #agents-variables-import-button, a file chosen and read
ImportVariablesLoad(variables) ==
    /\ agentVarModal = NoModal
    /\ chosenAgentId # Undefined
    /\ Affordable(2)
    /\ Becomes(importVariables(Reserve(Cur, 2), variables))

\* ------------------------------------------------------------ specifications
\* the canvas holds the nodes 1 .. n, each saved before under its own id,
\* and the engine holds that layout; nothing is pending
InitGraph(n, ls, types, at, sizes) ==
    /\ shapes = types
    /\ position = at
    /\ size = sizes
    /\ cells = [ i \in 1 .. n |-> i ]
    /\ links = ls
    /\ graphGen = 0
    /\ objGen = [ c \in Cells |-> 0 ]
    /\ customId = [ c \in Cells |-> IF c <= n THEN c ELSE Undefined ]
    /\ nextCell = n
    /\ selectedElement = NoNode
    /\ selectedElements = << >>
    /\ contextMenu = "hidden"
    /\ visibleItems = MenuItems
    /\ clickPosition = Point(0, 0)
    /\ currentEditingNode = NoNode
    /\ codeSaveHandlers = 0
    /\ codeDialogShown = FALSE
    /\ interfaceVisible = [ c \in Cells |-> FALSE ]
    /\ form = [ c \in Cells |-> NoForm ]
    /\ formData = [ c \in Cells |-> << >> ]
    /\ selects = << >>
    /\ listeners = << >>
    /\ inflight = { }
    /\ sent = << >>
    /\ events = << >>
    /\ futures = << >>
    /\ reserved = 0
    /\ engineNextId = n + 1
    /\ expandedSize = [ c \in Cells |-> defaultExpandedSize ]
    /\ sizeAtOpen = [ c \in Cells |-> originalSize ]
    /\ cursor = [ x |-> 0, y |-> 0 ]
    /\ held = { }
    /\ dragView = Undefined
    /\ pointer = IdlePointer
    /\ paperTranslate = [ tx |-> Num(0), ty |-> Num(0) ]
    /\ paperScale = Num(1)
    /\ mouseEvents = 0
    /\ wheelTicks = 0
    /\ fill = [ c \in Cells |-> "lightgray" ]
    /\ pencilDisplay = [ c \in Cells |-> "block" ]

\* the layout of the canvas, its nodes filled and their pencils shown as given
layoutWith(fills, pencils) ==
    toJSON([ cells |-> cells, links |-> links, customId |-> customId,
             interfaceVisible |-> interfaceVisible, form |-> form,
             shapes |-> shapes, position |-> position, size |-> size,
             expandedSize |-> expandedSize, fill |-> fills,
             pencilDisplay |-> pencils ])

\* the engine holds one workflow, whose layout is given, and the selector
\* holds that workflow
OneWorkflow(layout) ==
    /\ workflowSelector = TheWorkflow
    /\ workflowOptions = << TheWorkflow >>
    /\ engineWorkflows = << TheWorkflow >>
    /\ engineLayout = [ w \in Workflows |->
                          IF w = TheWorkflow THEN layout ELSE EmptyLayout ]

\* the engine holds the layout of the canvas
InitBoard(n, ls, types, at, sizes) ==
    /\ InitGraph(n, ls, types, at, sizes)
    /\ OneWorkflow(layoutWith(fill, pencilDisplay))

\* the name the engine holds for an agent
AgentName(a) == IF a = 1 THEN "alpha" ELSE "beta"

AgentDescription(a) == IF a = 1 THEN "first" ELSE "second"

\* what the engine holds of agent a besides its name, its state and its
\* variables: versions by their number, the version in use, the workflow
AgentSheet(a) ==
    [ version |-> a, versions_list |-> [ i \in Agents |-> i ],
      workflow_id |-> TheWorkflow, description |-> AgentDescription(a) ]

\* the editor as populateAgentEditor leaves it for agent a
LoadedFields(a) ==
    [ version |-> a, versionOptions |-> [ i \in Agents |-> i ],
      workflow |-> TheWorkflow, workflowOptions |-> << TheWorkflow >>,
      description |-> AgentDescription(a) ]

\* agents that are stopped and hold no variable
IdleAgents ==
    [ a \in Agents |-> [ name |-> AgentName(a), is_started |-> FALSE,
                         vars |-> << >> ] @@ AgentSheet(a) ]

\* the agents panel before it is opened: cleanAgentEditor() has run
InitPanel ==
    /\ agentsSelector = [ options |-> << >>, val |-> Undefined ]
    /\ agentItems = << >>
    /\ chosenAgentId = Undefined
    /\ agentNameField = ""
    /\ agentFields = CleanFields
    /\ agentVarItems = << >>
    /\ agentVarModal = NoModal
    /\ engineAgents = IdleAgents

InitScene(n, ls, types, at, sizes) ==
    InitBoard(n, ls, types, at, sizes) /\ InitPanel

\* no windows and no notes, the nodes in a row
InitCanvas(n, ls) ==
    InitScene(n, ls, [ e \in Shapes |-> "none" ],
              [ e \in Elements |-> Point(200 * (e - 1), 0) ],
              [ e \in Elements |-> originalSize ])

\* a node record with one text field and nothing persisted
PlainRecord == [ interface |-> [ a |-> [ type |-> "text" ] ],
                 static_input |-> << >>, code |-> "src" ]

\* The board: a workflow is selected and two saved nodes are on the canvas.
Init ==
    /\ \E ls \in { << >>, << [ source |-> 1, target |-> 2 ] >> } :
           InitCanvas(2, ls)
    /\ limit = MaxRequests
    /\ engineRecord = PlainRecord

Next ==
    \/ \E type \in AddedTypes : AddNode(type)
    \/ ContextMenuBlank
    \/ \E c \in Cells : ContextMenuNode(c)
    \/ CreateLinkClick
    \/ DeleteNodeClick
    \/ SaveWorkflowClick
    \/ PresetButtonClick
    \/ Respond

Spec == Init /\ [][Next]_vars

\* The life of a node: created, its code and its interface saved, reloaded.
InitNode ==
    /\ InitCanvas(0, << >>)
    /\ limit = MaxNodeRequests
    /\ engineRecord = PlainRecord

NextNode ==
    \/ ContextMenuBlank
    \/ \E type \in AddedTypes : AddNode(type)
    \/ \E c \in Cells : PencilClick(c)
    \/ \E content \in { "", "edited" } : CodeSaveClick(content)
    \/ \E c \in Cells : EyeButtonClick(c)
    \/ \E c \in Cells : InterfaceSaveClick(c)
    \/ PresetButtonClick
    \/ Respond

SpecNode == InitNode /\ [][NextNode]_vars

\* The embedded interface of one node that was saved before.  The engine
\* holds one of the node records below for it.
FieldDefs(key) ==
    CASE key = "a" -> { [ type |-> "text" ],
                        [ type |-> "text", default |-> "dflt" ],
                        [ type |-> "select", options_source |-> "A" ] }
      [] key = "b" -> { [ type |-> "checkbox" ],
                        [ type |-> "select", options_source |-> "A" ],
                        [ type |-> "select", options_source |-> "B" ] }
      [] key = "c" -> { [ type |-> "checkbox" ],
                        [ type |-> "select", options |-> << "s1", "a2" >> ],
                        [ type |-> "select", options_source |-> "B" ] }

Interfaces ==
    UNION { { i \in [ D -> UNION { FieldDefs(k) : k \in D } ] :
                \A k \in D : i[k] \in FieldDefs(k) } :
            D \in SUBSET SeqToSet(KeyOrder) }

StaticInputs ==
    UNION { [ D -> { "a2" } ] : D \in SUBSET SeqToSet(KeyOrder) }
    \cup { [ a |-> "null" ] }

NodeRecords ==
    { [ interface |-> i, static_input |-> v, code |-> "src" ] :
        i \in Interfaces, v \in StaticInputs }
    \cup { [ static_input |-> v, code |-> "src" ] : v \in StaticInputs }

InitForm ==
    /\ InitCanvas(1, << >>)
    /\ limit = MaxFormRequests
    /\ engineRecord \in NodeRecords

NextForm ==
    \/ \E c \in Cells : EyeButtonClick(c)
    \/ \E c \in Cells : InterfaceSaveClick(c)
    \/ Respond

SpecForm == InitForm /\ [][NextForm]_vars

\* Deleting under pending fetches: two saved nodes whose interface and code
\* are fetched while either node is deleted.
InitDelete ==
    /\ InitCanvas(2, << >>)
    /\ limit = MaxDeleteRequests
    /\ engineRecord = PlainRecord

NextDelete ==
    \/ \E c \in Cells : ContextMenuNode(c)
    \/ DeleteNodeClick
    \/ \E c \in Cells : EyeButtonClick(c)
    \/ \E c \in Cells : PencilClick(c)
    \/ Respond

SpecDelete == InitDelete /\ [][NextDelete]_vars

\* The agents list: the selector filled by a first list fetch, agents added
\* to the list, started and stopped.
InitAgents ==
    /\ InitBoard(0, << >>, [ e \in Shapes |-> "none" ],
                 [ e \in Elements |-> Point(200 * (e - 1), 0) ],
                 [ e \in Elements |-> originalSize ])
    /\ limit = MaxAgentRequests
    /\ engineRecord = PlainRecord
    /\ agentsSelector = [ options |-> [ a \in Agents |-> a ], val |-> 1 ]
    /\ agentItems = << >>
    /\ chosenAgentId = Undefined
    /\ agentNameField = ""
    /\ agentFields = CleanFields
    /\ agentVarItems = << >>
    /\ agentVarModal = NoModal
    /\ \E started \in [ Agents -> BOOLEAN ] :
           engineAgents = [ a \in Agents |->
                              [ name |-> AgentName(a),
                                is_started |-> started[a],
                                vars |-> << >> ] @@ AgentSheet(a) ]

NextAgents ==
    \/ AgentsButtonClick
    \/ \E a \in Agents : SelectAgent(a)
    \/ AgentsAddClick
    \/ \E item \in 1 .. MaxAgents : AgentButtonOffClick(item)
    \/ \E item \in 1 .. MaxAgents : AgentButtonOnClick(item)
    \/ Respond

SpecAgents == InitAgents /\ [][NextAgents]_vars

\* The variables of an agent: the first agent is listed and was chosen for
\* editing, the editor lists its variables.
AgentVarMaps ==
    { [ mood |-> Str("sad"), energy |-> Number("5") ],
      [ mood |-> Str("sad") ] }

InitVars ==
    /\ InitBoard(0, << >>, [ e \in Shapes |-> "none" ],
                 [ e \in Elements |-> Point(200 * (e - 1), 0) ],
                 [ e \in Elements |-> originalSize ])
    /\ limit = MaxVarRequests
    /\ engineRecord = PlainRecord
    /\ agentsSelector = [ options |-> [ a \in Agents |-> a ], val |-> 1 ]
    /\ agentItems = << [ agentId |-> 1, off |-> TRUE, on |-> FALSE ] >>
    /\ chosenAgentId = 1
    /\ agentNameField = AgentName(1)
    /\ agentFields = LoadedFields(1)
    /\ agentVarModal = NoModal
    /\ \E held_vars \in AgentVarMaps :
           /\ agentVarItems = keys(held_vars)
           /\ engineAgents = [ a \in Agents |->
                                 [ name |-> AgentName(a),
                                   is_started |-> FALSE,
                                   vars |-> IF a = 1 THEN held_vars
                                            ELSE << >> ]
                                 @@ AgentSheet(a) ]

NextVars ==
    \/ \E name \in SeqToSet(VarOrder) : AgentVarButtonEditClick(name)
    \/ \E newValue \in EditTexts : EditVarConfirm(newValue)
    \/ EditVarDismiss
    \/ \E variables \in ImportMaps : ImportVariablesLoad(variables)
    \/ Respond

SpecVars == InitVars /\ [][NextVars]_vars

\* Both shapes of a result: two saved nodes on the canvas and a stopped
\* agent in the list; nodes are created and linked, the agent is started,
\* and the engine answers in either shape of the protocol.
InitShapes ==
    /\ InitBoard(2, << >>, [ e \in Shapes |-> "none" ],
                 [ e \in Elements |-> Point(200 * (e - 1), 0) ],
                 [ e \in Elements |-> originalSize ])
    /\ limit = MaxShapeRequests
    /\ engineRecord = PlainRecord
    /\ agentsSelector = [ options |-> [ a \in Agents |-> a ], val |-> 1 ]
    /\ agentItems = << [ agentId |-> 1, off |-> TRUE, on |-> FALSE ] >>
    /\ chosenAgentId = Undefined
    /\ agentNameField = ""
    /\ agentFields = CleanFields
    /\ agentVarItems = << >>
    /\ agentVarModal = NoModal
    /\ engineAgents = IdleAgents

NextShapes ==
    \/ ContextMenuBlank
    \/ \E type \in AddedTypes : AddNode(type)
    \/ \E c \in Cells : ContextMenuNode(c)
    \/ CreateLinkClick
    \/ \E item \in 1 .. MaxAgents : AgentButtonOffClick(item)
    \/ Respond
    \/ RespondSuccessShaped

SpecShapes == InitShapes /\ [][NextShapes]_vars

\* The canvas under the mouse: a window that holds the first node, a
\* second node beside it, and a note below; the view untouched.
TheWindow == MaxNodes + 1
TheNote == MaxNodes + 2

InitPointer ==
    /\ InitScene(2, << >>,
                 [ e \in Shapes |-> IF e = TheWindow THEN "Window"
                                    ELSE IF e = TheNote THEN "Note"
                                    ELSE "none" ],
                 [ e \in Elements |->
                     IF e = 1 THEN Point(20, 30)
                     ELSE IF e = 2 THEN Point(300, 60)
                     ELSE IF e = TheNote THEN Point(0, 200)
                     ELSE Point(0, 0) ],
                 [ e \in Elements |->
                     IF e = TheWindow THEN windowSize
                     ELSE IF e = TheNote THEN noteSize
                     ELSE originalSize ])
    /\ limit = 0
    /\ engineRecord = PlainRecord

NextPointer ==
    \/ \E button \in Buttons, target \in Elements \cup { Undefined } :
           MouseDown(button, target)
    \/ \E p \in CursorPoints : MouseMove(p)
    \/ \E button \in Buttons : MouseUp(button)
    \/ \E deltaY \in { -100, 100 } : Wheel(deltaY)

SpecPointer == InitPointer /\ [][NextPointer]_vars

\* The context menu over a canvas that holds nodes, a link, and the windows
\* and notes the menu adds and deletes.
InitMenu ==
    /\ InitScene(2, << [ source |-> 1, target |-> 2 ] >>,
                 [ e \in Shapes |-> "none" ],
                 [ e \in Elements |-> Point(200 * (e - 1), 0) ],
                 [ e \in Elements |-> originalSize ])
    /\ limit = 0
    /\ engineRecord = PlainRecord

NextMenu ==
    \/ ContextMenuBlank
    \/ \E c \in Cells : ContextMenuNode(c)
    \/ \E i \in 1 .. MaxLoadLinks : ContextMenuLink(i)
    \/ \E e \in Shapes : ContextMenuShape(e)
    \/ DocumentClick
    \/ \E e \in Shapes : AddWindowClick(e)
    \/ \E e \in Shapes : AddNoteClick(e)
    \/ DeleteWindowClick
    \/ DeleteNoteClick

SpecMenu == InitMenu /\ [][NextMenu]_vars

\* ---------------------------------------------------------------- properties
\* future f waits for event e: e has its name, came after f was registered,
\* and no event of that name came in between
Awaiting(f, e) ==
    /\ futures[f].kind = events[e].kind
    /\ futures[f].regAt < e
    /\ \A d \in (futures[f].regAt + 1) .. (e - 1) :
           events[d].kind # futures[f].kind

\* the event delivered by this step
Delivered == events'[Len(events')]

\* the numbers of the requests emitted by this step
Emitted == (Len(sent) + 1) .. Len(sent')

\* C1: when two futures registered for the same response event name wait
\* together, the first event of that name resolves the one registered first
\* with its payload, whichever request the event answers.
C1_FirstRegisteredResolved ==
    \A e \in 1 .. Len(events) :
        \A f, g \in 1 .. Len(futures) :
            (f < g /\ Awaiting(f, e) /\ Awaiting(g, e))
            => /\ futures[f].values # << >>
               /\ futures[f].values[1] = events[e].payload

\* C1 witness: two futures waited together, the event answered the request
\* of the second, and the first was resolved with its payload.
C1_Witness ==
    \E e \in 1 .. Len(events) :
        \E f, g \in 1 .. Len(futures) :
            /\ f < g /\ Awaiting(f, e) /\ Awaiting(g, e)
            /\ events[e].answers = g
            /\ events[e].payload = Failure
            /\ futures[f].values = << Failure >>

\* C2: a future is single-shot: it holds no value while no event of its name
\* came after its registration, and afterwards exactly the payload of the
\* first such event, whatever events of other names or later events of its
\* name were delivered.
C2_SingleShot ==
    \A f \in 1 .. Len(futures) :
        LET later == { e \in (futures[f].regAt + 1) .. Len(events) :
                         events[e].kind = futures[f].kind }
        IN IF later = {}
           THEN futures[f].values = << >>
           ELSE futures[f].values =
                    << events[CHOOSE e \in later :
                                  \A d \in later : e <= d].payload >>

\* C2 witness: after the future was registered an event of another name came,
\* then two events of its name with different payloads; it holds the first.
C2_Witness ==
    \E f \in 1 .. Len(futures) :
        \E c, d, e \in 1 .. Len(events) :
            /\ futures[f].regAt < c /\ c < d /\ d < e
            /\ events[c].kind # futures[f].kind
            /\ events[d].kind = futures[f].kind
            /\ events[e].kind = futures[f].kind
            /\ events[d].payload # events[e].payload
            /\ futures[f].values = << events[d].payload >>

\* the two ends of a link, as an unordered pair
Ends(link) == { link.source, link.target }

\* C3: the graph holds at most one link between any unordered pair of nodes.
C3_OneLinkPerPair ==
    \A i, j \in 1 .. Len(links) : Ends(links[i]) = Ends(links[j]) => i = j

\* C3 witness: without any load, the link between nodes 1 and 2 is in the
\* graph, the engine reported success for a link request from 2 to 1, and
\* that link is still the only one.
C3_Witness ==
    /\ graphGen = 0
    /\ Len(cells) >= 2
    /\ links = << [ source |-> 1, target |-> 2 ] >>
    /\ \E e \in 1 .. Len(events) :
           /\ events[e].kind = LINK_CREATE
           /\ events[e].payload.message = "success"
           /\ sent[events[e].answers].payload.source = 2
           /\ sent[events[e].answers].payload.target = 1

C8_TwoClickLinking ==
    [][ /\ (CreateLinkClick /\ selectedElements = << >>)
           => /\ selectedElements' = << selectedElement >>
              /\ sent' = sent
              /\ links' = links
        /\ (CreateLinkClick /\ Len(selectedElements) = 1
               /\ selectedElements[1].id # selectedElement.id)
           => /\ selectedElements' = << >>
              /\ sent' = Append(sent,
                     [ rid |-> Len(sent) + 1, event |-> LINK_CREATE_REQUEST,
                       payload |->
                           [ workflow_id |-> workflowSelector,
                             source |-> customId[selectedElements[1].id],
                             target |-> customId[selectedElement.id] ] ])
              /\ links' = links
        /\ events' # events => selectedElements' = selectedElements
        /\ (events' # events /\ Delivered.kind = LINK_CREATE
               /\ Delivered.payload.message # "success")
           => (links' = links /\ cells' = cells)
        /\ Len(links') > Len(links)
           => /\ events' # events
              /\ \/ Delivered.kind = WORKFLOW
                 \/ /\ Delivered.kind = LINK_CREATE
                    /\ Delivered.payload.message = "success"
      ]_vars

\* C8 witness: a link request from 1 to 2 was answered with an error and the
\* graph stayed without links; a second one was answered with success and
\* its link is in the graph; the slot is empty.
C8_Witness ==
    /\ graphGen = 0
    /\ selectedElements = << >>
    /\ links = << [ source |-> 1, target |-> 2 ] >>
    /\ Len(events) = 2
    /\ events[1].kind = LINK_CREATE /\ events[1].payload = Failure
    /\ events[1].answers = 1 /\ futures[2].regAt = 1
    /\ events[2].kind = LINK_CREATE /\ events[2].payload.message = "success"

\* the listener registered by this step for its request number i
Registered(i) == CHOOSE l \in SeqToSet(listeners') : l.fid = i

\* C6: a customId is nil until a successful NODE_SAVE response sets it to
\* the id of that response, which the response awaited by the first save of
\* the node does; once set it is never changed or cleared; and every save of
\* a node that has a customId sends it as the id.
C6_CustomIdPermanent ==
    [][ /\ \A c \in Cells :
              /\ (customId[c] = Undefined /\ customId'[c] # Undefined)
                 => /\ events' # events
                    /\ Delivered.kind = NODE_SAVE
                    /\ Delivered.payload.message = "success"
                    /\ customId'[c] = Delivered.payload.id
              /\ customId[c] # Undefined => customId'[c] = customId[c]
        /\ (events' # events /\ Delivered.kind = NODE_SAVE
               /\ Delivered.payload.message = "success")
           => \A i \in 1 .. Len(listeners) :
                  (listeners[i].kind = NODE_SAVE
                      /\ listeners[i].cont.is_new_node)
                  => customId'[listeners[i].cont.node.id] = Delivered.payload.id
        /\ \A i \in Emitted :
              (sent'[i].event = NODE_SAVE_REQUEST
                  /\ customId[Registered(i).cont.node.id] # Undefined)
              => /\ Has(sent'[i].payload, "id")
                 /\ sent'[i].payload.id = customId[Registered(i).cont.node.id]
      ]_vars

\* C6 witness: node 1 got its customId from the response to its first save,
\* and a code save of it went out with that id and succeeded.
C6_Witness ==
    /\ customId[1] # Undefined
    /\ sent[1].event = NODE_SAVE_REQUEST /\ ~Has(sent[1].payload, "id")
    /\ events[1].answers = 1 /\ events[1].payload.id = customId[1]
    /\ \E i \in 1 .. Len(sent) :
           /\ sent[i].event = NODE_SAVE_REQUEST
           /\ Has(sent[i].payload, "code")
           /\ sent[i].payload.id = customId[1]
           /\ \E e \in 1 .. Len(events) :
                  events[e].answers = i /\ events[e].payload.message = "success"

\* a request that saves an interface
IsInterfaceSave(msg) ==
    msg.event = NODE_SAVE_REQUEST /\ Has(msg.payload, "static_input")

\* the interface definition and the persisted static input of a node record
SchemaOf(record) == IF Has(record, "interface") THEN record.interface ELSE << >>

PersistedOf(record) ==
    IF Has(record, "static_input") THEN record.static_input ELSE << >>

\* the value the rule of the interface save gives a key
RuleValue(definition, submitted, persisted, key) ==
    CASE definition.type = "checkbox" /\ key \in DOMAIN submitted -> "true"
      [] definition.type = "checkbox" /\ key \notin DOMAIN submitted -> "false"
      [] definition.type # "checkbox" /\ key \in DOMAIN submitted ->
             submitted[key]
      [] definition.type # "checkbox" /\ key \notin DOMAIN submitted
            /\ key \in DOMAIN persisted -> persisted[key]
      [] definition.type # "checkbox" /\ key \notin DOMAIN submitted
            /\ key \notin DOMAIN persisted
            /\ "default" \in DOMAIN definition -> definition.default
      [] OTHER -> "null"

\* C4: the static_input an interface save sends has exactly the keys of the
\* interface definition of the fetched record, and per key the form value if
\* the form submitted the key (for a checkbox: whether it did), else the
\* persisted value, else the default of the definition, else null.
C4_StaticInputDerived ==
    [][ \A i \in Emitted :
            IsInterfaceSave(sent'[i])
            => LET schema == SchemaOf(Delivered.payload)
                   persisted == PersistedOf(Delivered.payload)
                   submitted == formData'[Registered(i).cont.node.id]
                   staticInput == sent'[i].payload.static_input
               IN /\ DOMAIN staticInput = DOMAIN schema
                  /\ \A key \in DOMAIN schema :
                         staticInput[key] =
                             RuleValue(schema[key], submitted, persisted, key)
      ]_vars

\* C4 witness: the definition has the keys a, b and c, the form submitted a
\* and b only, and the save sent a and b from the form and c as persisted.
C4_Witness ==
    \E i \in 1 .. Len(sent) :
        /\ IsInterfaceSave(sent[i])
        /\ DOMAIN formData[1] = { "a", "b" }
        /\ DOMAIN SchemaOf(events[futures[i].regAt].payload) = { "a", "b", "c" }
        /\ futures[i].regAt = Len(events)
        /\ sent[i].payload.static_input =
               [ a |-> "typed", b |-> "typed", c |-> "a2" ]

\* C5, as claimed: every key the persisted static input had before an
\* interface save is a key of the static_input the save sends.
C5_NeverShrinks ==
    [][ \A i \in Emitted :
            IsInterfaceSave(sent'[i])
            => DOMAIN PersistedOf(engineRecord)
                   \subseteq DOMAIN sent'[i].payload.static_input
      ]_vars

\* C5, amended: of the keys the persisted static input had before an
\* interface save, the save sends those that are keys of the interface
\* definition of the fetched record, and no others.
C5_KeepsDefinedKeys ==
    [][ \A i \in Emitted :
            IsInterfaceSave(sent'[i])
            => DOMAIN PersistedOf(engineRecord)
                   \cap DOMAIN sent'[i].payload.static_input
               = DOMAIN PersistedOf(engineRecord)
                   \cap DOMAIN SchemaOf(Delivered.payload)
      ]_vars

\* C5 witness: the persisted static input had the keys a and b, the
\* definition has the key a only, the form submitted nothing, and the save
\* sent a with its persisted value and no b.
C5_Witness ==
    \E i \in 1 .. Len(sent) :
        /\ IsInterfaceSave(sent[i])
        /\ futures[i].regAt = Len(events)
        /\ DOMAIN PersistedOf(events[futures[i].regAt].payload) = { "a", "b" }
        /\ DOMAIN SchemaOf(events[futures[i].regAt].payload) = { "a" }
        /\ formData[1] = << >>
        /\ sent[i].payload.static_input = [ a |-> "a2" ]

\* the options a select holds once filled from the option set of a source
OwnOptions(source) ==
    [ j \in 1 .. Len(OptionsOf(source)) |-> OptionFor(OptionsOf(source)[j]) ]

\* the static input of the record the form of select i was rendered from
RenderedFrom(i) == PersistedOf(events[futures[selects[i].request].regAt].payload)

\* every dynamic-options request was answered, each with success
AllOptionsAnswered ==
    /\ \A r \in inflight : sent[r].event # NODE_GET_DYNAMIC_OPTIONS_REQUEST
    /\ \A e \in 1 .. Len(events) :
           events[e].kind = NODE_GET_DYNAMIC_OPTIONS
           => events[e].payload.message = "success"

\* C9, as claimed: once the engine has answered every dynamic-options
\* request with success, every select of the rendered form that declares an
\* options source holds the option set of its own source, with the persisted
\* value selected if it is in that set.
C9_EverySelectPopulated ==
    AllOptionsAnswered
    => \A i \in 1 .. Len(selects) :
           (selects[i].live /\ selects[i].source # "")
           => /\ selects[i].options = OwnOptions(selects[i].source)
              /\ \A v \in { "a1", "a2", "b1" } :
                     ( /\ Has(RenderedFrom(i), selects[i].key)
                       /\ RenderedFrom(i)[selects[i].key] = v
                       /\ \E j \in 1 .. Len(OwnOptions(selects[i].source)) :
                              OwnOptions(selects[i].source)[j].value = v )
                     => selects[i].val = v

C11_ToggleRestoresSize ==
    [][ \A c \in Cells :
          (EyeButtonClick(c) /\ interfaceVisible[c])
          => /\ size'[c] = sizeAtOpen[c]
             /\ ~interfaceVisible'[c] ]_vars

\* the steps of the mouse: a pointer-move, a pointer-down on element e,
\* the pointer-up that ends the gesture on an element
PointerMoved == cursor' # cursor
PointerDownOn(e) == dragView = Undefined /\ dragView' = e
PointerUp == dragView # Undefined /\ dragView' = Undefined

\* where the cached offset puts element n, the window being at w
AtOffset(w, offset) ==
    [ x |-> Add(w.x, offset.offsetX), y |-> Add(w.y, offset.offsetY) ]

\* C12: the offsets cached when the drag of a window starts are the
\* distances of the captured elements from the window; every pointer-move
\* of the drag keeps the offsets and leaves each captured element at the
\* window's position plus its offset, so that window and captured elements
\* have moved by the same distance since the drag started.
C12_MembersFollowWindow ==
    [][ /\ \A w \in Shapes :
              (PointerDownOn(w) /\ isWindow(Canvas, w) /\ pointer'.isDragging)
              => \A n \in DOMAIN pointer'.initialNodePositions :
                     position[n] = AtOffset(position[w],
                                            pointer'.initialNodePositions[n])
        /\ \A w \in Shapes :
              ( /\ PointerMoved
                /\ dragView = w
                /\ isWindow(Canvas, w)
                /\ pointer.isDragging )
              => /\ pointer'.initialNodePositions = pointer.initialNodePositions
                 /\ \A n \in DOMAIN pointer.initialNodePositions :
                        position'[n] = AtOffset(position'[w],
                                                pointer.initialNodePositions[n])
      ]_vars

\* C12 witness: the window is being dragged, it has left its place, and the
\* node captured with it has left its place too.
C12_Witness ==
    /\ dragView = TheWindow
    /\ pointer.isDragging
    /\ 1 \in DOMAIN pointer.initialNodePositions
    /\ position[TheWindow] # Point(0, 0)
    /\ position[1] # Point(20, 30)
    /\ position[1] = AtOffset(position[TheWindow],
                              pointer.initialNodePositions[1])

\* the bounding box of n lies within the bounding box of w, edges included
Within(n, w) ==
    /\ Leq(position[w].x, position[n].x)
    /\ Leq(position[w].y, position[n].y)
    /\ Leq(Add(position[n].x, Num(size[n].width)),
           Add(position[w].x, Num(size[w].width)))
    /\ Leq(Add(position[n].y, Num(size[n].height)),
           Add(position[w].y, Num(size[w].height)))

\* C13: the pointer-down that starts the drag of a window captures exactly
\* the other elements whose bounding box lies within the window's then; a
\* pointer-move of that drag keeps the captured set, moves no element
\* outside it (the window apart) and keeps every captured element at its
\* distance from the window; the pointer-up empties the captured set.
C13_MembershipFixedAtDragStart ==
    [][ /\ \A w \in Shapes :
              (PointerDownOn(w) /\ isWindow(Canvas, w) /\ pointer'.isDragging)
              => /\ pointer'.nodesInsideWindow =
                        { n \in getElements(Canvas) \ { w } : Within(n, w) }
                 /\ DOMAIN pointer'.initialNodePositions =
                        pointer'.nodesInsideWindow
        /\ \A w \in Shapes :
              ( /\ PointerMoved
                /\ dragView = w
                /\ isWindow(Canvas, w)
                /\ pointer.isDragging )
              => /\ pointer'.nodesInsideWindow = pointer.nodesInsideWindow
                 /\ \A n \in Elements \ (pointer.nodesInsideWindow \cup { w }) :
                        position'[n] = position[n]
                 /\ \A n \in pointer.nodesInsideWindow :
                        /\ Sub(position'[n].x, position'[w].x)
                               = Sub(position[n].x, position[w].x)
                        /\ Sub(position'[n].y, position'[w].y)
                               = Sub(position[n].y, position[w].y)
        /\ PointerUp => /\ pointer'.nodesInsideWindow = { }
                        /\ pointer'.initialNodePositions = << >>
      ]_vars

\* C13 witness: the dragged window has come to lie around the second node,
\* which was outside it when the drag started and is where it was, while
\* the first node, captured then, has moved.
C13_Witness ==
    /\ dragView = TheWindow
    /\ pointer.isDragging
    /\ pointer.nodesInsideWindow = { 1 }
    /\ Within(2, TheWindow)
    /\ position[2] = Point(300, 60)
    /\ position[1] # Point(20, 30)

\* C14, as claimed: at most one of isPanning, isDragging and isResizing is
\* true.
C14_ExclusiveStates ==
    /\ ~(pointer.isPanning /\ pointer.isDragging)
    /\ ~(pointer.isPanning /\ pointer.isResizing)
    /\ ~(pointer.isDragging /\ pointer.isResizing)

\* max(50, start + d)
AtLeast50(start, d) == IF start + d >= 50 THEN start + d ELSE 50

\* C15: the pointer-down that starts a resize records the size and position
\* of the element and the place of the pointer; every pointer-move of the
\* resize keeps the record and leaves the element with width
\* max(50, startWidth + dx) and height max(50, startHeight + dy), (dx, dy)
\* being the way of the pointer since the start, at the position of the
\* start; so neither is below 50.
C15_ResizeClamped ==
    [][ /\ \A e \in Shapes :
              (PointerDownOn(e) /\ pointer'.isResizing)
              => /\ pointer'.resizeStartSize = size[e]
                 /\ pointer'.resizeStartElementPosition = position[e]
                 /\ pointer'.resizeStartPosition = cursor
        /\ \A e \in Shapes :
              (PointerMoved /\ dragView = e /\ pointer.isResizing)
              => LET dx == cursor'.x - pointer.resizeStartPosition.x
                     dy == cursor'.y - pointer.resizeStartPosition.y
                 IN /\ size'[e].width =
                           AtLeast50(pointer.resizeStartSize.width, dx)
                    /\ size'[e].height =
                           AtLeast50(pointer.resizeStartSize.height, dy)
                    /\ size'[e].width >= 50
                    /\ size'[e].height >= 50
                    /\ position'[e] = pointer.resizeStartElementPosition
                    /\ pointer'.resizeStartSize = pointer.resizeStartSize
                    /\ pointer'.resizeStartPosition = pointer.resizeStartPosition
                    /\ pointer'.resizeStartElementPosition =
                           pointer.resizeStartElementPosition
      ]_vars

\* C15 witness: the note is being resized, the pointer has gone so far left
\* that the width is held at 50, and the height has followed the pointer.
C15_Witness ==
    /\ dragView = TheNote
    /\ pointer.isResizing
    /\ pointer.resizeStartSize.width + cursor.x - pointer.resizeStartPosition.x
           < 50
    /\ size[TheNote].width = 50
    /\ size[TheNote].height =
           pointer.resizeStartSize.height + cursor.y
               - pointer.resizeStartPosition.y
    /\ size[TheNote].height # pointer.resizeStartSize.height
    /\ position[TheNote] = Point(0, 200)

\* the local point of the pointer event, as the handlers receive it, lies
\* in the bottom-right 10x10 zone of element e
InHotZone(e) ==
    LET at == snapToGrid(Canvas, cursor)
    IN /\ Leq(Sub(Add(position[e].x, Num(size[e].width)), Num(10)), at.x)
       /\ Leq(Sub(Add(position[e].y, Num(size[e].height)), Num(10)), at.y)

WorldPoint(o, t, s) ==
    [ x |-> Div(Sub(Num(o.x), t.tx), s), y |-> Div(Sub(Num(o.y), t.ty), s) ]

C18_MenuItemsByCategory ==
    [][ /\ (\E i \in 1 .. MaxLoadLinks : ContextMenuLink(i))
           => contextMenu' # "hidden" /\ visibleItems' = { "delete-link" }
        /\ (\E c \in Cells : ContextMenuNode(c))
           => /\ contextMenu' # "hidden"
              /\ visibleItems' = { "create-link", "delete-node" }
        /\ (\E e \in Shapes : ContextMenuShape(e) /\ shapes[e] = "Window")
           => /\ contextMenu' # "hidden"
              /\ visibleItems' = { "rename-window", "add-node", "add-note",
                                   "delete-window" }
        /\ (\E e \in Shapes : ContextMenuShape(e) /\ shapes[e] = "Note")
           => contextMenu' # "hidden" /\ visibleItems' = { "delete-note" }
        /\ ContextMenuBlank
           => /\ contextMenu' # "hidden"
              /\ visibleItems' = { "add-node", "add-window", "add-note",
                                   "clear-nodes" }
        /\ DocumentClick => contextMenu' = "hidden"
      ]_vars

\* C18 witness: the menu is open on a window, which the items of the blank
\* canvas added, and shows the four items of a window.
C18_Witness ==
    /\ contextMenu = "window"
    /\ selectedElement.id \in Shapes
    /\ shapes[selectedElement.id] = "Window"
    /\ visibleItems = { "rename-window", "add-node", "add-note",
                        "delete-window" }

\* the definition of a field as claimed: its default is the persisted value
\* if there is one that is not null, else the default of the schema
CoalescedDefinition(record, key) ==
    LET persisted == PersistedOf(record)
        definition == SchemaOf(record)[key]
    IN IF Has(persisted, key) /\ persisted[key] # "null"
       THEN [ k \in (DOMAIN definition) \cup { "default" } |->
                IF k = "default" THEN persisted[key] ELSE definition[k] ]
       ELSE definition

\* C19, as claimed: when a response renders the form of a node, the value
\* each text field starts with is that of staticInput[key] ??
\* schema[key].default, a persisted null giving way to the schema default.
C19_InitialValueCoalesced ==
    [][ \A c \in Cells :
          (form'[c] # form[c] /\ form'[c] # NoForm)
          => \A key \in DOMAIN form'[c].fields :
                 form'[c].fields[key].type = "text"
                 => textValue(form'[c].fields[key])
                        = textValue(CoalescedDefinition(Delivered.payload, key))
      ]_vars

\* the step that hands a NODE_CONTENT event to the continuations waiting for it
ContentArrives ==
    /\ Len(events') = Len(events) + 1
    /\ events'[Len(events')].kind = NODE_CONTENT

\* the cells the waiting continuations find in the graph at response time
FoundAtResponse ==
    { findByCustomId(Cur, listeners[i].cont.nodeId).id :
        i \in { j \in 1 .. Len(listeners) :
                   listeners[j].kind = NODE_CONTENT } } \ { Undefined }

Arrives(eventName) ==
    /\ Len(events') = Len(events) + 1
    /\ events'[Len(events')].kind = eventName

C22_OneIconServerConfirmed ==
    /\ [] ( \A i \in 1 .. Len(agentItems) :
              agentItems[i].off # agentItems[i].on )
    /\ [][ \A i \in 1 .. Len(agentItems) :
             agentItems'[i] # agentItems[i]
             => /\ Arrives(AGENT_START) \/ Arrives(AGENT_STOP)
                /\ events'[Len(events')].payload.message = "success"
       ]_vars

\* C22 witness: an agent was listed as stopped, its start was confirmed and
\* its item now shows the started icon, while an error response left another
\* click without effect.
C22_Witness ==
    /\ \E i \in 1 .. Len(agentItems) : \E e \in 1 .. Len(events) :
           /\ agentItems[i].on
           /\ ~ agentItems[i].off
           /\ events[e].kind = AGENT_START
           /\ events[e].payload.message = "success"
           /\ sent[events[e].answers].payload.id = agentItems[i].agentId
    /\ \E e \in 1 .. Len(events) :
           /\ events[e].kind \in { AGENT_START, AGENT_STOP }
           /\ events[e].payload.message = "error"

\* the requests emitted by this step, oldest first
EmittedRequests == SubSeq(sent', Len(sent) + 1, Len(sent'))

\* C23: confirming the edit of a variable emits exactly one request, an
\* AGENT_IMPORT_VARS_REQUEST for the chosen agent whose variables map has
\* the edited variable as its only entry, with the text of the textarea as
\* the value.
C23_EditIsOneEntryImport ==
    [][ \A newValue \in EditTexts :
          EditVarConfirm(newValue)
          => /\ Len(EmittedRequests) = 1
             /\ EmittedRequests[1].event = AGENT_IMPORT_VARS_REQUEST
             /\ EmittedRequests[1].payload.id = chosenAgentId
             /\ DOMAIN EmittedRequests[1].payload.variables
                    = { agentVarModal[1].variableName }
             /\ EmittedRequests[1].payload.variables[agentVarModal[1].variableName]
                    = Str(newValue)
      ]_vars

\* C23 witness: the value of energy was shown in the modal, 7 was typed over
\* it and confirmed; the import request with that one entry is out and the
\* agent holds other variables too.
C23_Witness ==
    \E r \in 1 .. Len(sent) :
        /\ sent[r].event = AGENT_IMPORT_VARS_REQUEST
        /\ sent[r].payload.variables = [ energy |-> Str("7") ]
        /\ "mood" \in DOMAIN engineAgents[sent[r].payload.id].vars
        /\ \E q \in 1 .. r - 1 :
               /\ sent[q].event = AGENT_REQUEST
               /\ q \notin inflight

\* C24: when a success AGENT_IMPORT_VARS response answers the import of a map
\* into an agent, the agent holds every imported key with the imported value
\* and every key it held that the map does not name with the value it had,
\* and no other key; the other agents keep their variables.
C24_ImportIsMergeUpsert ==
    [][ ( /\ Arrives(AGENT_IMPORT_VARS)
          /\ Delivered.payload.message = "success" )
        => LET request == sent[Delivered.answers].payload
               before == engineAgents[request.id].vars
               after == engineAgents'[request.id].vars
           IN /\ DOMAIN after = (DOMAIN before) \cup
                                    (DOMAIN request.variables)
              /\ \A k \in DOMAIN request.variables :
                     after[k] = request.variables[k]
              /\ \A k \in (DOMAIN before) \ (DOMAIN request.variables) :
                     after[k] = before[k]
              /\ \A a \in Agents \ { request.id } :
                     engineAgents'[a].vars = engineAgents[a].vars
      ]_vars

\* C24 witness: {mood: "happy"} was imported into the agent that held
\* {mood: "sad", energy: 5}; it holds {mood: "happy", energy: 5}, and the
\* list of the editor, fetched again, names both variables.
C24_Witness ==
    /\ engineAgents[1].vars = [ mood |-> Str("happy"), energy |-> Number("5") ]
    /\ agentVarItems = << "mood", "energy" >>
    /\ Len(sent) = 2
    /\ sent[1].event = AGENT_IMPORT_VARS_REQUEST
    /\ sent[1].payload.variables = [ mood |-> Str("happy") ]
    /\ sent[2].event = AGENT_REQUEST
    /\ inflight = { }

\* the listeners the event of this step calls
CalledNow == called(listeners, Delivered.kind)

\* the continuation of listener l took the response for a success: the new
\* node is in the graph, the two nodes are linked, the agent shows started
TookForSuccess(l) ==
    CASE l.cont.fn = "saveNode" ->
             l.cont.is_new_node => Includes(cells', l.cont.node.id)
      [] l.cont.fn = "linkCreate" ->
             getLink([ links |-> links' ], l.cont.sourceNode,
                     l.cont.targetNode) = << >>
      [] l.cont.fn = "agentStart" -> agentItems'[l.cont.agentItem].on
      [] OTHER -> TRUE

\* the response was taken for a failure: graph and agents list as they were,
\* no request emitted
TookForFailure ==
    /\ cells' = cells
    /\ links' = links
    /\ customId' = customId
    /\ agentItems' = agentItems
    /\ sent' = sent

\* the step handles the result of a node, link or agent operation
ResultArrives ==
    \/ Arrives(NODE_SAVE)
    \/ Arrives(LINK_CREATE)
    \/ Arrives(AGENT_START)

Fills == { fillColor(type) : type \in NodeTypes }
Displays == { "block", "none" }

\* A workflow is loaded: two saved nodes, a window and a note are on the
\* canvas; the layout the engine holds was saved with other fills and pencil
\* displays of the two nodes, the second node moved or not. The workflow is saved and the preset menu
\* loads it again.
InitLoad ==
    /\ \E ls \in { << >>, << [ source |-> 1, target |-> 2 ] >> } :
           InitGraph(2, ls,
                     [ e \in Shapes |-> IF e = TheWindow THEN "Window"
                                        ELSE IF e = TheNote THEN "Note"
                                        ELSE "none" ],
                     [ e \in Elements |->
                         IF e = TheNote THEN Point(0, 200)
                         ELSE Point(200 * (e - 1), 0) ],
                     [ e \in Elements |->
                         IF e = TheWindow THEN windowSize
                         ELSE IF e = TheNote THEN noteSize
                         ELSE originalSize ])
    /\ InitPanel
    /\ \E fills \in [ 1 .. 2 -> { "lightgray", "lightblue" } ],
          pencils \in [ 1 .. 2 -> Displays ],
          at \in { Point(200, 0), Point(40, 80) } :
           OneWorkflow([ layoutWith(fills @@ fill, pencils @@ pencilDisplay)
                           EXCEPT !.cells[2].position = at ])
    /\ limit = MaxLoadRequests
    /\ engineRecord = PlainRecord

NextLoad ==
    \/ SaveWorkflowClick
    \/ PresetButtonClick
    \/ Respond

SpecLoad == InitLoad /\ [][NextLoad]_vars

\* the display the load gives the pencil of a node of this fill
pencilOfFill(color) ==
    IF color # "lightgray" /\ color # "lightgreen" THEN "none" ELSE "block"

Loaded == Delivered.payload.graph

\* the step loads a layout that a save of this canvas stored in the engine
LoadsSaved ==
    /\ Arrives(WORKFLOW)
    /\ CalledNow # << >>
    /\ \E d \in 1 .. Len(sent) :
           /\ sent[d].event = WORKFLOW_SAVE_REQUEST
           /\ Has(sent[d].payload, "id")
           /\ sent[d].payload.graph = Loaded
           /\ \E e \in 1 .. Len(events) :
                  /\ events[e].answers = d
                  /\ message(events[e].payload) = "success"

\* after the load the canvas holds the nodes, the windows and the notes of
\* the saved layout, each with its customId and at its position
SameElements ==
    /\ cells' = [ i \in 1 .. Len(Loaded.cells) |-> Loaded.cells[i].id ]
    /\ \A i \in 1 .. Len(Loaded.cells) :
           /\ customId'[Loaded.cells[i].id] = Loaded.cells[i].customId
           /\ position'[Loaded.cells[i].id] = Loaded.cells[i].position
    /\ \A e \in Shapes :
           IF e \in DOMAIN Loaded.shapes
           THEN /\ shapes'[e] = Loaded.shapes[e].type
                /\ position'[e] = Loaded.shapes[e].position
           ELSE shapes'[e] = "none"

\* links a and b connect the same two nodes, in either direction
SamePair(a, b) ==
    \/ a.source = b.source /\ a.target = b.target
    \/ a.source = b.target /\ a.target = b.source

WorkflowLists == { << >>, << 1 >>, << 2 >>, << 1, 2 >>, << 2, 1 >> }

\* The preset menu: the canvas is empty; the engine holds no workflow, one or
\* two, and the selector holds none or one that the engine may list or not.
\* The menu is opened, the workflow selected is saved, the engine answers.
InitList ==
    /\ InitGraph(0, << >>, [ e \in Shapes |-> "none" ],
                 [ e \in Elements |-> Point(0, 0) ],
                 [ e \in Elements |-> originalSize ])
    /\ InitPanel
    /\ workflowSelector \in Workflows \cup { Undefined }
    /\ workflowOptions = IF workflowSelector = Undefined THEN << >>
                         ELSE << workflowSelector >>
    /\ engineWorkflows \in WorkflowLists
    /\ engineLayout = [ w \in Workflows |-> EmptyLayout ]
    /\ limit = MaxListRequests
    /\ engineRecord = PlainRecord

NextList ==
    \/ PresetButtonClick
    \/ SaveWorkflowClick
    \/ Respond

SpecList == InitList /\ [][NextList]_vars

\* the ids a WORKFLOW_LIST response lists, in its order
Listed == [ i \in 1 .. Len(Delivered.payload.workflows) |->
              Delivered.payload.workflows[i].id ]

\* the requests of this event name among those the step emits
EmittedOf(eventName) ==
    SelectSeq(EmittedRequests, LAMBDA msg : msg.event = eventName)

\* C28: when a WORKFLOW_LIST response lists no workflow, every fetch it
\* resolves emits a WORKFLOW_SAVE_REQUEST with the name 'Default' and an
\* empty layout, and the selection stays; when it lists some, no workflow is
\* saved, the workflow selected before stays selected if it is listed and
\* the first listed one is selected otherwise, and that workflow is
\* requested. When a WORKFLOW_SAVE response reaches the save of the default
\* workflow, the list is fetched again if it says success and nothing is
\* emitted otherwise.
C28_EmptyListCreatesDefault ==
    [][ /\ (Arrives(WORKFLOW_LIST) /\ CalledNow # << >>)
           => IF Listed = << >>
              THEN /\ Len(EmittedRequests) = Len(CalledNow)
                   /\ \A i \in 1 .. Len(EmittedRequests) :
                          /\ EmittedRequests[i].event = WORKFLOW_SAVE_REQUEST
                          /\ EmittedRequests[i].payload
                                 = [ name |-> "Default", graph |-> EmptyLayout ]
                   /\ workflowSelector' = workflowSelector
              ELSE /\ EmittedOf(WORKFLOW_SAVE_REQUEST) = << >>
                   /\ workflowSelector'
                          = IF Includes(Listed, workflowSelector)
                            THEN workflowSelector ELSE Listed[1]
                   /\ Len(EmittedRequests) = Len(CalledNow)
                   /\ \A i \in 1 .. Len(EmittedRequests) :
                          /\ EmittedRequests[i].event = WORKFLOW_REQUEST
                          /\ EmittedRequests[i].payload.id = workflowSelector'
        /\ Arrives(WORKFLOW_SAVE)
           => LET defaults == SelectSeq(CalledNow,
                                  LAMBDA l : l.cont.fn = "saveEmptyWorkflow")
              IN IF message(Delivered.payload) = "success"
                 THEN /\ Len(EmittedRequests) = Len(defaults)
                      /\ \A i \in 1 .. Len(EmittedRequests) :
                             EmittedRequests[i].event = WORKFLOW_LIST_REQUEST
                 ELSE EmittedRequests = << >>
      ]_vars

\* C28 witness: a list with no workflow arrived, the default workflow was
\* saved with success and the list fetched again; it listed the workflow
\* created, which is selected now though another was selected before.
C28_Witness ==
    \E e1, e2, e3 \in 1 .. Len(events) :
        /\ e1 < e2 /\ e2 < e3
        /\ events[e1].kind = WORKFLOW_LIST
        /\ events[e1].payload.workflows = << >>
        /\ events[e2].kind = WORKFLOW_SAVE
        /\ message(events[e2].payload) = "success"
        /\ sent[events[e2].answers].payload
               = [ name |-> "Default", graph |-> EmptyLayout ]
        /\ events[e3].kind = WORKFLOW_LIST
        /\ Len(events[e3].payload.workflows) = 1
        /\ workflowSelector = events[e3].payload.workflows[1].id
        /\ workflowSelector = 1
        /\ \E d \in 1 .. Len(sent) :
               /\ sent[d].event = WORKFLOW_SAVE_REQUEST
               /\ Has(sent[d].payload, "id")
               /\ sent[d].payload.id = 2

\* the listeners of the create requests of new nodes, among these listeners
Creates(ls) ==
    SelectSeq(ls, LAMBDA l : l.cont.fn = "saveNode" /\ l.cont.is_new_node)

\* the listener waits with the create request of this node
CreateOf(l, node) ==
    /\ l.cont.fn = "saveNode"
    /\ l.cont.is_new_node
    /\ l.cont.node = node

\* C29: a node whose create request waits for its NODE_SAVE response is not
\* in the graph. It enters the graph only in the step that hands a success
\* NODE_SAVE response to the future of its create request; the step sets its
\* customId to the id of the response and emits a WORKFLOW_SAVE_REQUEST whose
\* layout holds the node. The step that hands it an error response adds no
\* node, leaves the graph as it is and emits no WORKFLOW_SAVE_REQUEST, and
\* the node never enters the graph afterwards.
C29_NewNodeEntersOnSuccess ==
    [][ /\ \A i \in 1 .. Len(listeners) :
               LET l == listeners[i] IN
               (l.cont.fn = "saveNode" /\ l.cont.is_new_node)
               => /\ ~InGraph(Cur, l.cont.node)
                  /\ IF Arrives(NODE_SAVE)
                        /\ message(Delivered.payload) = "success"
                     THEN /\ Includes(cells', l.cont.node.id)
                          /\ objGen'[l.cont.node.id] = l.cont.node.gen
                          /\ customId'[l.cont.node.id] = Delivered.payload.id
                          /\ \E k \in 1 .. Len(EmittedRequests) :
                                 /\ EmittedRequests[k].event
                                        = WORKFLOW_SAVE_REQUEST
                                 /\ \E c \in 1 .. Len(EmittedRequests[k]
                                                        .payload.graph.cells) :
                                        EmittedRequests[k].payload.graph
                                            .cells[c].id = l.cont.node.id
                     ELSE ~Includes(cells', l.cont.node.id)
        /\ \A c \in Cells :
               (~Includes(cells, c) /\ Includes(cells', c))
               => \/ \E i \in 1 .. Len(listeners) :
                         /\ listeners[i].kind = NODE_SAVE
                         /\ CreateOf(listeners[i], [ id |-> c,
                                                     gen |-> objGen'[c] ])
                         /\ Arrives(NODE_SAVE)
                         /\ message(Delivered.payload) = "success"
                  \/ /\ Arrives(WORKFLOW)
                     /\ \E k \in 1 .. Len(Delivered.payload.graph.cells) :
                            Delivered.payload.graph.cells[k].id = c
        /\ (Arrives(NODE_SAVE) /\ message(Delivered.payload) # "success")
           => /\ cells' = cells
              /\ links' = links
              /\ customId' = customId
              /\ EmittedOf(WORKFLOW_SAVE_REQUEST) = << >>
      ]_vars

\* C29 witness: one create request was answered with an error and its node
\* is not in the graph; another was answered with success, its node is in
\* the graph under the id of the response and the layout was sent.
C29_Witness ==
    /\ listeners = << >>
    /\ nextCell = 2
    /\ Len(cells) = 1
    /\ \E e, f \in 1 .. Len(events) :
           /\ events[e].kind = NODE_SAVE
           /\ message(events[e].payload) = "error"
           /\ events[f].kind = NODE_SAVE
           /\ message(events[f].payload) = "success"
           /\ customId[cells[1]] = events[f].payload.id
    /\ \E d \in 1 .. Len(sent) :
           /\ sent[d].event = WORKFLOW_SAVE_REQUEST
           /\ Len(sent[d].payload.graph.cells) = 1
           /\ sent[d].payload.graph.cells[1].id = cells[1]

\* the listeners that wait for the event of this step when it arrives
Pending == SelectSeq(listeners, LAMBDA l : l.kind = Delivered.kind)

\* what the handlers of the board read and write is as it was
NoHandlerRan ==
    UNCHANGED << cells, links, customId, objGen, graphGen, form,
                 interfaceVisible, size, expandedSize, selects,
                 codeDialogShown, currentEditingNode, codeSaveHandlers,
                 workflowSelector, listeners, futures, sent >>

\* C30: the response event of a step resolves every future that is pending
\* for its name when it arrives, each with the payload of the event, and
\* takes the listener of each away, so that none of them waits for a later
\* event; an event that finds no future pending for its name reaches no
\* handler: graph, forms, dialogs, futures and requests stay as they were.
C30_OneResponseResolvesAllPending ==
    [][ (Len(events') = Len(events) + 1)
        => /\ \A i \in 1 .. Len(Pending) :
                  /\ futures[Pending[i].fid].values = << >>
                  /\ futures'[Pending[i].fid].values = << Delivered.payload >>
                  /\ \A j \in 1 .. Len(listeners') :
                         listeners'[j].fid # Pending[i].fid
           /\ \A f \in 1 .. Len(futures) :
                  (\A i \in 1 .. Len(Pending) : Pending[i].fid # f)
                  => futures'[f] = futures[f]
           /\ Pending = << >> => NoHandlerRan
      ]_vars

\* C30 witness: two NODE_CONTENT requests were in flight together; the
\* response to the first resolved the futures of both with its payload, and
\* the response to the second, which carried another payload, came after
\* and changed neither.
C30_Witness ==
    \E f, g \in 1 .. Len(futures) :
        \E d, e \in 1 .. Len(events) :
            /\ f < g /\ d < e
            /\ futures[f].kind = NODE_CONTENT
            /\ futures[g].kind = NODE_CONTENT
            /\ futures[g].regAt < d
            /\ events[d].answers = f
            /\ events[e].answers = g
            /\ events[d].payload # events[e].payload
            /\ futures[f].values = << events[d].payload >>
            /\ futures[g].values = << events[d].payload >>

\* the request the event of this step answers
Answered == sent[Delivered.answers]

\* the listeners of fetchNodeData whose callback the event of this step runs:
\* the node of their nodeId is in the graph
CallbacksRun ==
    SelectSeq(CalledNow,
              LAMBDA l : /\ l.cont.fn = "fetchNodeData"
                         /\ findByCustomId(Cur, l.cont.nodeId) # NoNode)

\* C31: the record a NODE_CONTENT response hands to the callback of
\* fetchNodeData(nodeId) is the answer to a NODE_CONTENT_REQUEST for that
\* same nodeId, also when requests for several nodes are pending together.
C31_RecordOfSameNode ==
    [][ Arrives(NODE_CONTENT)
        => \A i \in 1 .. Len(CallbacksRun) :
               Answered.payload.id = CallbacksRun[i].cont.nodeId ]_vars

\* C32: no two distinct nodes of the graph have the same customId, also when
\* two saves are pending together and the engine gives each response of a
\* create an id of its own.
C32_CustomIdsDistinct ==
    \A i, j \in 1 .. Len(cells) :
        i # j => customId[cells[i]] # customId[cells[j]]

\* ---------------------------------------------------- switching workflows
\* Two workflows: the first holds the two saved nodes the canvas shows and is
\* selected, the second is empty. The user switches between them, adds
\* nodes, and the engine answers.
InitSwitch ==
    /\ InitGraph(2, << >>, [ e \in Shapes |-> "none" ],
                 [ e \in Elements |-> Point(200 * (e - 1), 0) ],
                 [ e \in Elements |-> originalSize ])
    /\ InitPanel
    /\ workflowSelector = 1
    /\ workflowOptions = << 1, 2 >>
    /\ engineWorkflows = << 1, 2 >>
    /\ engineLayout = [ w \in Workflows |->
                          IF w = 1 THEN layoutWith(fill, pencilDisplay)
                          ELSE EmptyLayout ]
    /\ limit = MaxSwitchRequests
    /\ engineRecord = PlainRecord

NextSwitch ==
    \/ \E w \in Workflows : WorkflowSelectorChange(w)
    \/ ContextMenuBlank
    \/ \E type \in AddedTypes : AddNode(type)
    \/ Respond

SpecSwitch == InitSwitch /\ [][NextSwitch]_vars

\* a WORKFLOW_REQUEST waits for its answer in this state record
LoadPending(s) ==
    \E rid \in s.inflight : s.sent[rid].event = WORKFLOW_REQUEST

\* C33: when the last WORKFLOW response that was awaited is delivered, the
\* graph holds the nodes of the layout the engine holds for the workflow the
\* selector shows, also when the user selected one workflow and then another
\* before the first response arrived.
C33_GraphOfSelectedWorkflow ==
    [][ (Arrives(WORKFLOW) /\ ~LoadPending([ inflight |-> inflight',
                                             sent |-> sent' ]))
        => LET layout == engineLayout'[workflowSelector']
           IN cells' = [ i \in 1 .. Len(layout.cells) |-> layout.cells[i].id ]
      ]_vars

\* --------------------------------------------------------- deleting links
\* Two saved nodes and the link between them; links are deleted from the
\* menu, the menu is opened on links, on nodes and on the blank canvas.
InitLinks ==
    /\ InitCanvas(2, << [ source |-> 1, target |-> 2 ] >>)
    /\ limit = MaxLinkRequests
    /\ engineRecord = PlainRecord

NextLinks ==
    \/ \E i \in 1 .. MaxLoadLinks : ContextMenuLink(i)
    \/ DeleteLinkClick
    \/ \E c \in Cells : ContextMenuNode(c)
    \/ ContextMenuBlank
    \/ Respond

SpecLinks == InitLinks /\ [][NextLinks]_vars

\* the link of the graph a LINK_DELETE_REQUEST names by the customIds of its
\* ends
NamedBy(msg, link) ==
    /\ customId[link.source] = msg.payload.source
    /\ customId[link.target] = msg.payload.target

\* C34: a success LINK_DELETE response removes from the graph the links the
\* LINK_DELETE_REQUESTs of the futures it resolves were sent for and no
\* other cell, whatever was right-clicked since; an error response removes
\* nothing.
C34_RemovesRequestedLink ==
    [][ (Arrives(LINK_DELETE) /\ CalledNow # << >>)
        => /\ cells' = cells
           /\ shapes' = shapes
           /\ links' = IF message(Delivered.payload) = "success"
                       THEN SelectSeq(links, LAMBDA link :
                                ~\E i \in 1 .. Len(CalledNow) :
                                    NamedBy(sent[CalledNow[i].fid], link))
                       ELSE links
      ]_vars

\* C35: every link of the graph has both of its end nodes in the graph.
C35_LinksHaveBothEnds ==
    \A i \in 1 .. Len(links) :
        /\ Includes(cells, links[i].source)
        /\ Includes(cells, links[i].target)

\* C36: a node whose interface is closed has exactly its originalSize, in
\* every reachable state, also after a NODE_CONTENT response that arrives
\* once the interface was closed again.
C36_ClosedNodeHasOriginalSize ==
    \A i \in 1 .. Len(cells) :
        ~interfaceVisible[cells[i]] => size[cells[i]] = originalSize

\* C37: a new node enters the graph only while the selected workflow is the
\* one its NODE_SAVE_REQUEST names, and the WORKFLOW_SAVE_REQUEST emitted with
\* it carries that workflow id, also when another workflow was selected
\* between the request and its response.
C37_NodeEntersItsWorkflow ==
    [][ \A i \in 1 .. Len(listeners) :
            LET l == listeners[i] IN
            ( /\ l.cont.fn = "saveNode"
              /\ l.cont.is_new_node
              /\ Arrives(NODE_SAVE)
              /\ Includes(cells', l.cont.node.id) )
            => /\ workflowSelector = sent[l.fid].payload.workflow_id
               /\ \A k \in 1 .. Len(EmittedRequests) :
                      EmittedRequests[k].event = WORKFLOW_SAVE_REQUEST
                      => EmittedRequests[k].payload.id
                             = sent[l.fid].payload.workflow_id
      ]_vars

\* ------------------------------------------------------- the agent editor
\* Both agents are listed; either is chosen for editing and saved.
InitEditor ==
    /\ InitBoard(0, << >>, [ e \in Shapes |-> "none" ],
                 [ e \in Elements |-> Point(200 * (e - 1), 0) ],
                 [ e \in Elements |-> originalSize ])
    /\ limit = MaxEditRequests
    /\ engineRecord = PlainRecord
    /\ agentsSelector = [ options |-> [ a \in Agents |-> a ], val |-> 1 ]
    /\ agentItems = [ a \in Agents |->
                        [ agentId |-> a, off |-> TRUE, on |-> FALSE ] ]
    /\ chosenAgentId = Undefined
    /\ agentNameField = ""
    /\ agentFields = CleanFields
    /\ agentVarItems = << >>
    /\ agentVarModal = NoModal
    /\ engineAgents = IdleAgents

NextEditor ==
    \/ \E item \in 1 .. MaxAgents : AgentButtonEditClick(item)
    \/ AgentsSaveClick
    \/ Respond

SpecEditor == InitEditor /\ [][NextEditor]_vars

\* C38: an AGENT_SAVE_REQUEST sent from a populated editor carries, with the
\* id of the chosen agent, the name, version, workflow and description that
\* were loaded for that agent, also when the edit buttons of two agents were
\* clicked before the first AGENT response.
C38_SavesFieldsOfChosenAgent ==
    [][ \A k \in 1 .. Len(EmittedRequests) :
            LET msg == EmittedRequests[k] IN
            (msg.event = AGENT_SAVE_REQUEST /\ msg.payload.name # "")
            => LET agent == engineAgents[msg.payload.id] IN
               /\ msg.payload.id = chosenAgentId
               /\ msg.payload.name = agent.name
               /\ msg.payload.version = agent.version
               /\ msg.payload.workflow_id = agent.workflow_id
               /\ msg.payload.description = agent.description
      ]_vars

\* -------------------------------------------------------- the code editor
\* Two saved nodes; the code editor is opened from the pencil of either and
\* saved.
InitCode ==
    /\ InitCanvas(2, << >>)
    /\ limit = MaxCodeRequests
    /\ engineRecord = PlainRecord

NextCode ==
    \/ \E c \in Cells : PencilClick(c)
    \/ \E content \in { "", "edited" } : CodeSaveClick(content)
    \/ Respond

SpecCode == InitCode /\ [][NextCode]_vars

\* the NODE_SAVE_REQUESTs a step emits
NodeSaves == EmittedOf(NODE_SAVE_REQUEST)

\* C39: a click on the save button of the code editor, which closes the
\* dialog, emits exactly one NODE_SAVE_REQUEST, and it names the node being
\* edited, however many times the editor was opened before.
C39_OneSavePerClick ==
    [][ (codeDialogShown /\ ~codeDialogShown')
        => /\ Len(NodeSaves) = 1
           /\ NodeSaves[1].payload.id = customId[currentEditingNode.id]
      ]_vars

\* -------------------------------------------------------- adding workflows
\* The first workflow holds two nodes and is shown; workflows are added.
InitAdd ==
    /\ InitCanvas(2, << >>)
    /\ limit = MaxAddRequests
    /\ engineRecord = PlainRecord

NextAdd ==
    \/ \E workflowName \in { "", "new" } : AddWorkflowClick(workflowName)
    \/ Respond

SpecAdd == InitAdd /\ [][NextAdd]_vars

\* C40: once addWorkflow has received a success WORKFLOW_SAVE response with
\* the id X of the workflow created and every request that followed was
\* answered, the WORKFLOW_LIST that lists X among them, the selector shows X
\* and the graph holds the layout of X.
C40_AddedWorkflowSelected ==
    \A j \in 1 .. Len(events) :
        ( /\ events[j].kind = WORKFLOW_SAVE
          /\ message(events[j].payload) = "success"
          /\ inflight = { } )
        => LET layout == engineLayout[events[j].payload.id]
           IN /\ workflowSelector = events[j].payload.id
              /\ cells = [ i \in 1 .. Len(layout.cells) |->
                             layout.cells[i].id ]

====
